---- MODULE Spec2Model ----
(***************************************************************************)
(* Request execution pipeline of anthropic/_base_client.py: the blocking   *)
(* (SyncAPIClient) and cooperative (AsyncAPIClient) request executors, the *)
(* retry policy, the error classifier and the response decoder.            *)
(*                                                                         *)
(* Time is counted in milliseconds.  A request or response object is       *)
(* identified by the number of the attempt that built or returned it.      *)
(***************************************************************************)
EXTENDS Integers, Sequences, FiniteSets, TLC

VARIABLES
    client,             \* read-only client configuration
    call,               \* per-call arguments of request(): cast_to, stream, stream_cls
    options,            \* variant -> FinalRequestOptions of its logical request
    wire,               \* name of the set of outcomes the transport of this run can produce
    script,             \* transport outcomes by attempt number, shared by the variants
    pc,                 \* variant -> state of the executor state machine
    remaining_retries,  \* variant -> argument of _request: << >> is None, <<n>> is n
    retries,            \* variant -> local `retries` of the running _request
    request,            \* variant -> wire request built by the running _request
    sent,               \* variant -> wire requests dispatched so far
    trace,              \* variant -> "dispatch" / "sleep" events so far
    timeout,            \* variant -> delay of the sleep in progress
    result,             \* variant -> outcome of the logical request
    uuid_count,         \* number of uuid4() calls made so far
    received,           \* variant -> responses the transport returned to its executor
    fn, arg, res,       \* pure-function harness: function applied, input, output
    server,             \* the list endpoint: its pages in order
    at,                 \* variant -> where the caller of a list traversal stands
    paginator,          \* variant -> AsyncPaginator returned by get_api_list, if any
    requests,           \* variant -> logical requests made for pages so far
    handed,             \* variant -> pages returned or yielded to the caller so far
    yielded,            \* variant -> pages yielded by iter_pages so far
    iterated            \* variant -> items yielded by item-by-item iteration so far

vars == <<client, call, options, wire, script, pc, remaining_retries, retries, request,
          sent, trace, timeout, result, uuid_count, received, fn, arg, res,
          server, at, paginator, requests, handed, yielded, iterated>>

exec_vars == <<client, call, options, wire, script, pc, remaining_retries, retries, request,
               sent, trace, timeout, result, uuid_count, received>>

pure_vars == <<fn, arg, res>>

page_vars == <<server, at, paginator, requests, handed, yielded, iterated>>

----------------------------------------------------------------------------
(* Bounds *)

MaxRetries == 2

\* The deepest retry budget of the runs that observe the backoff.
MaxBackoffRetries == 4

\* Attempts the executor of a client is followed for: one more than its budget
\* allows.
MaxAttempts == client.max_retries + 2

----------------------------------------------------------------------------
(* Values *)

None == "None"

Omit == "Omit"

Variants == {"sync", "async"}

IdempotencyHeaderName == "Idempotency-Key"

Min(a, b) == IF a <= b THEN a ELSE b

\* httpx exception classes the transport raises; ConnectTimeout, ReadTimeout and
\* WriteTimeout derive from httpx.TimeoutException, ConnectError does not.
TransportExceptions == {"ConnectTimeout", "ReadTimeout", "WriteTimeout", "ConnectError"}

IsTimeoutException_None(e) == FALSE

IsTimeoutException(e) == e \in {"ConnectTimeout", "ReadTimeout", "WriteTimeout"}

StatusCodes == {200, 201, 302, 400, 401, 403, 404, 408, 409, 422, 429, 500, 503}

ShouldRetryHeaders == {None, "true", "false", "maybe"}

RetryAfterHeaders == {None, "soon", "-1", "0", "1", "30", "60", "61"}

ContentTypes == {None, "application/json", "application/json; charset=utf-8", "text/plain"}

\* response.text: JSON that fits the schema, JSON that does not, JSON null,
\* text that is not JSON, the same between white space, white space, nothing.
Texts == {"valid_json", "invalid_json", "null", "not_json", "  not_json  ", "   ", ""}

Responses ==
    [status : StatusCodes, x_should_retry : ShouldRetryHeaders,
     retry_after : RetryAfterHeaders, content_type : ContentTypes, text : Texts]

Resp(s, sr, ra, ct, tx) ==
    [status |-> s, x_should_retry |-> sr, retry_after |-> ra, content_type |-> ct, text |-> tx]

NoResponse == Resp(0, None, None, None, "")

\* An outcome of transport send(): an exception (exc # None) or a response.
Raises(e) == [exc |-> e, resp |-> NoResponse]

Returns(r) == [exc |-> None, resp |-> r]

IsException(o) == o.exc # None

----------------------------------------------------------------------------
(* Helpers of BaseClient *)

Spread_FirstWins(obj1, obj2) ==
    [k \in (DOMAIN obj1) \cup (DOMAIN obj2) |->
         IF k \in DOMAIN obj1 THEN obj1[k] ELSE obj2[k]]

\* {**obj1, **obj2}
Spread(obj1, obj2) ==
    [k \in (DOMAIN obj1) \cup (DOMAIN obj2) |->
         IF k \in DOMAIN obj2 THEN obj2[k] ELSE obj1[k]]

\* Mappings are functions over a subset of the key set; a value may be Omit.
_merge_mappings(obj1, obj2) ==
    LET merged == Spread(obj1, obj2)
        kept == {k \in DOMAIN merged : merged[k] # Omit}
    IN  [k \in kept |-> merged[k]]

\* FinalRequestOptions.get_max_retries: the per-call override when given,
\* capped by the client default.
get_max_retries(opts, max_retries) ==
    IF opts.max_retries = << >> THEN max_retries
    ELSE Min(opts.max_retries[1], max_retries)

_remaining_retries(remaining, opts) ==
    IF remaining # << >> THEN remaining[1] ELSE get_max_retries(opts, client.max_retries)

default_headers ==
    Spread([k \in {"Content-Type"} |-> "application/json"], client.custom_headers)

\* uuid4() never repeats: the n-th call yields the n-th key.
_idempotency_key(n) == "stainless-python-retry-" \o ToString(n)

CacheKey_Drop(opts, key) == opts

\* options.idempotency_key = self._idempotency_key()
CacheKey(opts, key) == [opts EXCEPT !.idempotency_key = key]

\* The hook a client subclass overrides to reject a header combination: here it
\* requires the headers the client was configured to require.  TRUE when the
\* hook returns, FALSE when it raises.
_validate_headers(headers, custom_headers) ==
    client.required_headers \subseteq DOMAIN headers

_build_headers_AnyMethod(opts, n) ==
    LET custom_headers == opts.headers
        headers_dict == _merge_mappings(default_headers, custom_headers)
        accepted == _validate_headers(headers_dict, custom_headers)
        idempotency_header == client.idempotency_header
        adds == /\ accepted
                /\ idempotency_header # None
                /\ idempotency_header \notin DOMAIN headers_dict
        generates == adds /\ opts.idempotency_key = None
        key == IF generates THEN _idempotency_key(n) ELSE opts.idempotency_key
    IN  [headers |-> IF adds
                     THEN [k \in (DOMAIN headers_dict) \cup {idempotency_header} |->
                               IF k = idempotency_header THEN key ELSE headers_dict[k]]
                     ELSE headers_dict,
         options |-> IF generates THEN CacheKey(opts, key) ELSE opts,
         generated |-> generates,
         error |-> IF accepted THEN None ELSE "HeaderValidationError"]

\* The headers of the wire request and the options as _build_headers leaves them,
\* or the error it raises.  `n` is the number the next uuid4() call would take.
_build_headers(opts, n) ==
    LET custom_headers == opts.headers
        headers_dict == _merge_mappings(default_headers, custom_headers)
        accepted == _validate_headers(headers_dict, custom_headers)
        idempotency_header == client.idempotency_header
        adds == /\ accepted
                /\ idempotency_header # None
                /\ opts.method # "get"
                /\ idempotency_header \notin DOMAIN headers_dict
        generates == adds /\ opts.idempotency_key = None
        key == IF generates THEN _idempotency_key(n) ELSE opts.idempotency_key
    IN  [headers |-> IF adds
                     THEN [k \in (DOMAIN headers_dict) \cup {idempotency_header} |->
                               IF k = idempotency_header THEN key ELSE headers_dict[k]]
                     ELSE headers_dict,
         options |-> IF generates THEN CacheKey(opts, key) ELSE opts,
         generated |-> generates,
         error |-> IF accepted THEN None ELSE "HeaderValidationError"]

\* A JSON body: nothing, a list, or a mapping from keys to values.  A value is
\* a scalar or an array, written as its JSON text.
NoJson == [kind |-> "none", map |-> [k \in {} |-> None]]

JsonList == [kind |-> "list", map |-> [k \in {} |-> None]]

JsonMapping(m) == [kind |-> "mapping", map |-> m]

\* The elements of a value that is an array, << >> for a scalar.
Elements(value) ==
    CASE value = "[]" -> << >>
      [] value = "[1]" -> <<"1">>
      [] value = "[1,2]" -> <<"1", "2">>
      [] OTHER -> << >>

IsArray(value) == value \in {"[]", "[1]", "[1,2]"}

\* qs.stringify_items(data, array_format="brackets"): one item per scalar and
\* one per array element, under the key suffixed with brackets.  An item is
\* <<key, position, value>>.
stringify_items(data) ==
    UNION {IF IsArray(data[k])
           THEN {<<k \o "[]", n, Elements(data[k])[n]>> : n \in 1 .. Len(Elements(data[k]))}
           ELSE {<<k, 0, data[k]>>} : k \in DOMAIN data}

_serialize_multipartform_Overwrite(data) == None

\* The error _serialize_multipartform raises, None when it returns.
_serialize_multipartform(data) ==
    LET items == stringify_items(data)
    IN  IF \E x, y \in items : x # y /\ x[1] = y[1] THEN "ValueError" ELSE None

\* The headers of the wire request and the options as _build_request leaves
\* them, or the error it raises.
_build_request(opts, n) ==
    LET b == _build_headers(opts, n)
        json_data == IF opts.extra_json.kind = "none" THEN opts.json_data
                     ELSE IF opts.json_data.kind = "none" THEN opts.extra_json
                     ELSE IF opts.json_data.kind = "mapping"
                          THEN JsonMapping(_merge_mappings(opts.json_data.map, opts.extra_json.map))
                     ELSE opts.json_data
        unmergeable == opts.extra_json.kind # "none" /\ opts.json_data.kind = "list"
        multipart == /\ b.error = None
                     /\ "Content-Type" \in DOMAIN b.headers
                     /\ b.headers["Content-Type"] = "multipart/form-data"
        truthy == json_data.kind = "list" \/ (json_data.kind = "mapping" /\ DOMAIN json_data.map # {})
        error == IF b.error # None THEN b.error
                 ELSE IF unmergeable THEN "RuntimeError"
                 ELSE IF multipart /\ truthy /\ json_data.kind # "mapping" THEN "TypeError"
                 ELSE IF multipart /\ truthy THEN _serialize_multipartform(json_data.map)
                 ELSE None
    IN  [headers |-> IF multipart
                     THEN [k \in (DOMAIN b.headers) \ {"Content-Type"} |-> b.headers[k]]
                     ELSE b.headers,
         options |-> b.options,
         generated |-> b.generated,
         error |-> error]

\* int(response_headers.get("retry-after")), -1 when it raises.
ParseRetryAfter(h) ==
    CASE h = "-1" -> -1
      [] h = "0" -> 0
      [] h = "1" -> 1
      [] h = "30" -> 30
      [] h = "60" -> 60
      [] h = "61" -> 61
      [] OTHER -> -1

\* random() in milliseconds: a value of [0, 1000).
RandomValues == {0, 500, 999}

UsableRetryAfter_Below60(retry_after) == 0 < retry_after /\ retry_after < 60

\* if 0 < retry_after <= 60
UsableRetryAfter(retry_after) == 0 < retry_after /\ retry_after <= 60

sleep_seconds_Uncapped(initial_retry_delay, nb_retries, max_retry_delay) ==
    initial_retry_delay * (nb_retries - 1) * (nb_retries - 1)

\* min(initial_retry_delay * pow(nb_retries - 1, 2), max_retry_delay)
sleep_seconds(initial_retry_delay, nb_retries, max_retry_delay) ==
    Min(initial_retry_delay * (nb_retries - 1) * (nb_retries - 1), max_retry_delay)

\* response_headers is << >> (None) or <<response>>; rnd is the value of random().
_calculate_retry_timeout(remaining, opts, response_headers, rnd) ==
    LET max_retries == get_max_retries(opts, client.max_retries)
        retry_after == IF response_headers = << >> THEN -1
                       ELSE ParseRetryAfter(response_headers[1].retry_after)
        initial_retry_delay == 500
        max_retry_delay == 2000
        nb_retries == max_retries - remaining
        jitter == rnd - 500
        t == sleep_seconds(initial_retry_delay, nb_retries, max_retry_delay) + jitter
    IN  IF UsableRetryAfter(retry_after) THEN retry_after * 1000
        ELSE IF t >= 0 THEN t ELSE 0

_should_retry_408(response) ==
    LET should_retry_header == response.x_should_retry
    IN  IF should_retry_header = "true" THEN TRUE
        ELSE IF should_retry_header = "false" THEN FALSE
        ELSE response.status \in {408, 409, 429} \/ response.status >= 500

_should_retry(response) ==
    LET should_retry_header == response.x_should_retry
    IN  IF should_retry_header = "true" THEN TRUE
        ELSE IF should_retry_header = "false" THEN FALSE
        ELSE IF response.status = 409 THEN TRUE
        ELSE IF response.status = 429 THEN TRUE
        ELSE IF response.status >= 500 THEN TRUE
        ELSE FALSE

_make_status_error_Above500(status) ==
    CASE status = 400 -> "BadRequestError"
      [] status = 401 -> "AuthenticationError"
      [] status = 403 -> "PermissionDeniedError"
      [] status = 404 -> "NotFoundError"
      [] status = 409 -> "ConflictError"
      [] status = 422 -> "UnprocessableEntityError"
      [] status = 429 -> "RateLimitError"
      [] status > 500 -> "InternalServerError"
      [] OTHER -> "APIStatusError"

_make_status_error(status) ==
    CASE status = 400 -> "BadRequestError"
      [] status = 401 -> "AuthenticationError"
      [] status = 403 -> "PermissionDeniedError"
      [] status = 404 -> "NotFoundError"
      [] status = 409 -> "ConflictError"
      [] status = 422 -> "UnprocessableEntityError"
      [] status = 429 -> "RateLimitError"
      [] status >= 500 -> "InternalServerError"
      [] OTHER -> "APIStatusError"

\* json.loads succeeds on JSON text only.
ParsesAsJson(text) == text \in {"valid_json", "invalid_json", "null"}

\* An error or a result of a logical request.  request and response are attempt
\* numbers, 0 when the error carries none.
Outcome(state, type, req, rsp, body, message) ==
    [state |-> state, type |-> type, request |-> req, response |-> rsp,
     body |-> body, message |-> message]

NoBody == <<"", "">>

NoMessage == <<"", 0, "">>

NoResult == Outcome("Pending", None, 0, 0, NoBody, NoMessage)

\* str.strip()
Strip(text) ==
    CASE text = "  not_json  " -> "not_json"
      [] text = "   " -> ""
      [] OTHER -> text

_make_status_error_from_response_CodeOnly(req, rsp, response) ==
    LET err_text == Strip(response.text)
        parsed == ParsesAsJson(err_text)
        body == IF parsed THEN <<"json", err_text>> ELSE <<"text", err_text>>
        err_msg == IF parsed THEN <<"Error code", response.status, err_text>>
                   ELSE <<"Error code", response.status, "">>
    IN  Outcome("Failed", _make_status_error(response.status), req, rsp, body, err_msg)

\* A body is <<"json", text>> (the value json.loads returned) or <<"text", text>>
\* (a string).  A message is <<"Error code", status, body>> for
\* "Error code: {status} - {body}", <<"Error code", status, "">> for
\* "Error code: {status}", and <<"text", 0, text>> for the text itself.
_make_status_error_from_response(req, rsp, response) ==
    LET err_text == Strip(response.text)
        parsed == ParsesAsJson(err_text)
        body == IF parsed THEN <<"json", err_text>> ELSE <<"text", err_text>>
        err_msg == IF parsed THEN <<"Error code", response.status, err_text>>
                   ELSE IF err_text # "" THEN <<"text", 0, err_text>>
                   ELSE <<"Error code", response.status, "">>
    IN  Outcome("Failed", _make_status_error(response.status), req, rsp, body, err_msg)

----------------------------------------------------------------------------
(* Pages: PageInfo, BasePage *)

\* A URL: its path and its own query parameters.
URL(path, params) == [path |-> path, params |-> params]

NoQuery == [k \in {} |-> None]

\* An argument that was not given; an argument x that was given is <<x>>.
NOT_GIVEN == << >>

\* PageInfo.__init__: the object constructed, or the error raised.
PageInfo(url, params) == [error |-> None, url |-> url, params |-> params]

\* A page as the decoder constructs it from the response to request number
\* `req`: its items and what its next_page_info() returns (<< >> for
\* None, <<info>> for a PageInfo); nothing is bound yet.
Page(req, items, info) ==
    [request |-> req, items |-> items, info |-> info, bound |-> << >>, binds |-> 0]

_set_private_attributes_Skip(page, client_, model, opts) == page

\* page._set_private_attributes(client=..., model=..., options=...)
_set_private_attributes(page, client_, model, opts) ==
    [page EXCEPT !.bound = <<[client |-> client_, model |-> model, options |-> opts]>>,
                 !.binds = @ + 1]

\* self._options
_options(page) == page.bound[1].options

_get_page_items(page) == page.items

next_page_info(page) == page.info

has_next_page_IgnoreItems(page) == next_page_info(page) # << >>

has_next_page(page) ==
    LET items == _get_page_items(page)
    IN  IF items = << >> THEN FALSE
        ELSE next_page_info(page) # << >>

_params_from_url_UrlOnly(page, url) == url.params

\* httpx.QueryParams(self._options.params).merge(url.params)
_params_from_url(page, url) == Spread(_options(page).params, url.params)

model_copy_Alias(obj) == [value |-> obj, copied |-> FALSE]

\* model_copy(self._options): a new object with the field values of obj.
model_copy(obj) == [value |-> obj, copied |-> TRUE]

\* The page after its method assigned to the fields of the object c: it is
\* as before when c is a copy of its options.
Assigned(page, c, opts) ==
    IF c.copied THEN page
    ELSE [page EXCEPT !.bound = <<[@[1] EXCEPT !.options = opts]>>]

_info_to_options_UrlFirst(page, info) ==
    LET c == model_copy(_options(page))
        opts == c.value
    IN  IF info.url # NOT_GIVEN
        THEN LET params == _params_from_url(page, info.url[1])
                 url == URL(info.url[1].path, params)
                 next == [opts EXCEPT !.params = url.params, !.url = url]
             IN  [error |-> None, options |-> next, self |-> Assigned(page, c, next)]
        ELSE IF info.params # NOT_GIVEN
        THEN LET next == [opts EXCEPT !.params = Spread(opts.params, info.params[1])]
             IN  [error |-> None, options |-> next, self |-> Assigned(page, c, next)]
        ELSE [error |-> "ValueError", options |-> opts, self |-> page]

\* The options of the request for the next page, or the error raised, and
\* the page as the call leaves it.
_info_to_options(page, info) ==
    LET c == model_copy(_options(page))
        opts == c.value
    IN  IF info.params # NOT_GIVEN
        THEN LET next == [opts EXCEPT !.params = Spread(opts.params, info.params[1])]
             IN  [error |-> None, options |-> next, self |-> Assigned(page, c, next)]
        ELSE IF info.url # NOT_GIVEN
        THEN LET params == _params_from_url(page, info.url[1])
                 url == URL(info.url[1].path, params)
                 next == [opts EXCEPT !.params = url.params, !.url = url]
             IN  [error |-> None, options |-> next, self |-> Assigned(page, c, next)]
        ELSE [error |-> "ValueError", options |-> opts, self |-> page]

----------------------------------------------------------------------------
(* Response decoder *)

CastTo == {"NoneType", "str", "httpx.Response", "ResponseSubclass", "UnknownResponse",
           "Model", "BuilderModel", "int"}

\* content_type, *_ = response.headers.get("content-type").split(";")
SplitContentType(ct) ==
    IF ct = "application/json; charset=utf-8" THEN "application/json" ELSE ct

Success(rsp, kind, text) == Outcome("Succeeded", kind, 0, rsp, <<kind, text>>, NoMessage)

Raised(type) == Outcome("Failed", type, 0, 0, NoBody, NoMessage)

_process_response_data_BuilderFirst(cast_to, rsp, response) ==
    IF cast_to = "UnknownResponse" /\ response.text # "null" THEN Success(rsp, "data", response.text)
    ELSE IF cast_to = "BuilderModel" THEN Success(rsp, "built", response.text)
    ELSE IF response.text = "null" THEN Success(rsp, "None", "")
    ELSE IF client.strict
         THEN IF response.text = "valid_json" THEN Success(rsp, "validated", response.text)
              ELSE Raised("pydantic.ValidationError")
    ELSE Success(rsp, "constructed", response.text)

_process_response_data(cast_to, rsp, response) ==
    IF response.text = "null" THEN Success(rsp, "None", "")
    ELSE IF cast_to = "UnknownResponse" THEN Success(rsp, "data", response.text)
    ELSE IF cast_to = "BuilderModel" THEN Success(rsp, "built", response.text)
    ELSE IF client.strict
         THEN IF response.text = "valid_json" THEN Success(rsp, "validated", response.text)
              ELSE Raised("pydantic.ValidationError")
    ELSE Success(rsp, "constructed", response.text)

_process_response(cast_to, rsp, response) ==
    IF cast_to = "NoneType" THEN Success(rsp, "None", "")
    ELSE IF cast_to = "str" THEN Success(rsp, "text", response.text)
    ELSE IF cast_to = "httpx.Response" THEN Success(rsp, "response", response.text)
    ELSE IF cast_to = "ResponseSubclass" THEN Raised("ValueError")
    ELSE IF cast_to \notin {"UnknownResponse", "Model", "BuilderModel"}
         THEN Raised("RuntimeError")
    ELSE IF response.content_type = None THEN Raised("AttributeError")
    ELSE IF SplitContentType(response.content_type) # "application/json"
         THEN Raised("ValueError")
    ELSE IF ~ParsesAsJson(response.text) THEN Raised("JSONDecodeError")
    ELSE _process_response_data(cast_to, rsp, response)

----------------------------------------------------------------------------
(* Request executor: SyncAPIClient._request / AsyncAPIClient._request *)

Done(v) == pc[v] \in {"Succeeded", "Failed"}

\* response.raise_for_status() raises HTTPStatusError unless the status is 2xx.
raise_for_status(response) == ~(200 <= response.status /\ response.status < 300)

Decrement_Keep(n) == n

\* remaining = remaining_retries - 1
Decrement(n) == n - 1

StatusRetry_BudgetOnly(v, response) == retries[v] > 0

StatusRetry_NoBudget(v, response) == _should_retry(response)

\* if retries > 0 and self._should_retry(err.response)
StatusRetry(v, response) == retries[v] > 0 /\ _should_retry(response)

Blocked_BySleeper(v) ==
    \E w \in Variants \ {v} :
        call.on[v] = "async" /\ call.on[w] = "async" /\ pc[w] = "Retrying"

\* await anyio.sleep(timeout) and await self._client.send(...) suspend the
\* logical request that awaits and no other: no executor waits for another.
Blocked(v) == FALSE

\* The part of _request up to the transport call: the budget is read, the wire
\* request is built from the options and handed to the transport, unless
\* building it raises.
Dispatch(v) ==
    /\ pc[v] = "Building"
    /\ ~Blocked(v)
    /\ Len(sent[v]) < MaxAttempts
    /\ LET b == _build_request(options[v], uuid_count + 1)
           req == [id |-> Len(sent[v]) + 1, method |-> options[v].method,
                   headers |-> b.headers]
       IN  /\ retries' = [retries EXCEPT ![v] = _remaining_retries(remaining_retries[v], options[v])]
           /\ options' = [options EXCEPT ![v] = b.options]
           /\ uuid_count' = IF b.generated THEN uuid_count + 1 ELSE uuid_count
           /\ IF b.error # None
              THEN /\ pc' = [pc EXCEPT ![v] = "Failed"]
                   /\ result' = [result EXCEPT ![v] =
                                     Outcome("Failed", b.error, 0, 0, NoBody, NoMessage)]
                   /\ UNCHANGED <<request, sent, trace>>
              ELSE /\ request' = [request EXCEPT ![v] = req]
                   /\ sent' = [sent EXCEPT ![v] = Append(@, req)]
                   /\ trace' = [trace EXCEPT ![v] = Append(@, "dispatch")]
                   /\ pc' = [pc EXCEPT ![v] = "Sent"]
                   /\ UNCHANGED result
    /\ UNCHANGED <<client, call, wire, script, remaining_retries, timeout, received>>
    /\ UNCHANGED <<pure_vars, page_vars>>

_retry_request_NoSleep(v, response_headers) ==
    /\ remaining_retries' = [remaining_retries EXCEPT ![v] = <<Decrement(retries[v])>>]
    /\ pc' = [pc EXCEPT ![v] = "Building"]
    /\ UNCHANGED <<timeout, trace, result>>

\* _retry_request up to its sleep.
_retry_request(v, response_headers) ==
    \E rnd \in RandomValues :
        LET remaining == Decrement(retries[v])
        IN  /\ remaining_retries' = [remaining_retries EXCEPT ![v] = <<remaining>>]
            /\ timeout' = [timeout EXCEPT ![v] =
                               _calculate_retry_timeout(remaining, options[v], response_headers, rnd)]
            /\ trace' = [trace EXCEPT ![v] = Append(@, "sleep")]
            /\ pc' = [pc EXCEPT ![v] = "Retrying"]
            /\ UNCHANGED result

\* The logical request ends: _request returns or raises.
Finish(v, out) ==
    /\ pc' = [pc EXCEPT ![v] = out.state]
    /\ result' = [result EXCEPT ![v] = out]
    /\ UNCHANGED <<remaining_retries, timeout, trace>>

APITimeoutError(req) == Outcome("Failed", "APITimeoutError", req, 0, NoBody, NoMessage)

APIConnectionError(req) == Outcome("Failed", "APIConnectionError", req, 0, NoBody, NoMessage)

APIResponseValidationError_NoResponse(req, rsp) ==
    Outcome("Failed", "APIResponseValidationError", req, 0, NoBody, NoMessage)

APIResponseValidationError(req, rsp) ==
    Outcome("Failed", "APIResponseValidationError", req, rsp, NoBody, NoMessage)

ChooseStreamCls_DefaultFirst(explicit, default) ==
    IF default # None THEN default ELSE explicit

\* stream_cls = stream_cls or self._default_stream_cls
ChooseStreamCls(explicit, default) ==
    IF explicit # None THEN explicit ELSE default

\* The response send(request, stream=stream) returns: the body of a streamed
\* response has not been read.
Received(response, stream) == [response |-> response, is_read |-> ~stream]

read_Skip(r) == r

\* err.response.read() / await err.response.aread()
read(r) == [r EXCEPT !.is_read = TRUE]

\* What the executor of v did with the response r of its current attempt by
\* the time it left _request: whether it read it, and whether it returned it
\* to the caller inside a stream wrapper.
Keep(v, r, wrapped) ==
    received' = [received EXCEPT ![v] =
                     Append(@, [id |-> request[v].id, is_read |-> r.is_read, wrapped |-> wrapped])]

\* The tail of _request after a 2xx response: stream wrapper or decoded result.
Complete(v, response) ==
    LET i == request[v].id
        stream_cls == ChooseStreamCls(call.stream_cls, client.default_stream_cls)
        rsp == _process_response(call.cast_to, i, response)
        r == Received(response, call.stream)
    IN  IF call.stream
        THEN IF stream_cls = None
             THEN Finish(v, Raised("MissingStreamClassError")) /\ Keep(v, r, FALSE)
             ELSE Finish(v, Success(i, stream_cls, "live")) /\ Keep(v, r, TRUE)
        ELSE IF rsp.type = "pydantic.ValidationError"
             THEN Finish(v, APIResponseValidationError(i, i)) /\ Keep(v, r, FALSE)
             ELSE Finish(v, rsp) /\ Keep(v, r, FALSE)

\* raise self._make_status_error_from_response(request, err.response): the
\* text of a response whose body has not been read raises ResponseNotRead.
RaiseStatusError(req, r) ==
    IF r.is_read THEN _make_status_error_from_response(req, req, r.response)
    ELSE Outcome("Failed", "httpx.ResponseNotRead", 0, 0, NoBody, NoMessage)

\* try/except of SyncAPIClient._request around send() and raise_for_status().
SyncHandle(v, o) ==
    LET i == request[v].id
    IN  IF ~IsException(o) /\ raise_for_status(o.resp)
        THEN IF StatusRetry(v, o.resp)
             THEN _retry_request(v, <<o.resp>>) /\ Keep(v, Received(o.resp, call.stream), FALSE)
             ELSE /\ Finish(v, RaiseStatusError(i, read(Received(o.resp, call.stream))))
                  /\ Keep(v, read(Received(o.resp, call.stream)), FALSE)
        ELSE IF IsException(o) /\ IsTimeoutException(o.exc)
        THEN /\ IF retries[v] > 0
                THEN _retry_request(v, << >>)
                ELSE Finish(v, APITimeoutError(i))
             /\ UNCHANGED received
        ELSE IF IsException(o)
        THEN /\ IF retries[v] > 0
                THEN _retry_request(v, << >>)
                ELSE Finish(v, APIConnectionError(i))
             /\ UNCHANGED received
        ELSE Complete(v, o.resp)

\* try/except of AsyncAPIClient._request around send() and raise_for_status().
AsyncHandle(v, o) ==
    LET i == request[v].id
    IN  IF ~IsException(o) /\ raise_for_status(o.resp)
        THEN IF StatusRetry(v, o.resp)
             THEN _retry_request(v, <<o.resp>>) /\ Keep(v, Received(o.resp, call.stream), FALSE)
             ELSE /\ Finish(v, RaiseStatusError(i, read(Received(o.resp, call.stream))))
                  /\ Keep(v, read(Received(o.resp, call.stream)), FALSE)
        ELSE IF IsException(o) /\ o.exc = "ConnectTimeout"
        THEN /\ IF retries[v] > 0
                THEN _retry_request(v, << >>)
                ELSE Finish(v, APITimeoutError(i))
             /\ UNCHANGED received
        ELSE IF IsException(o) /\ o.exc = "ReadTimeout"
        THEN /\ Finish(v, Outcome("Failed", "httpx.ReadTimeout", i, 0, NoBody, NoMessage))
             /\ UNCHANGED received
        ELSE IF IsException(o) /\ IsTimeoutException(o.exc)
        THEN /\ IF retries[v] > 0
                THEN _retry_request(v, << >>)
                ELSE Finish(v, APITimeoutError(i))
             /\ UNCHANGED received
        ELSE IF IsException(o)
        THEN /\ IF retries[v] > 0
                THEN _retry_request(v, << >>)
                ELSE Finish(v, APIConnectionError(i))
             /\ UNCHANGED received
        ELSE Complete(v, o.resp)

\* Outcomes of the transport: a few for the runs that vary the request options,
\* more for the runs that vary the retry budget.
FewOutcomes ==
    {Raises("ConnectError"),
     Raises("ReadTimeout"),
     Returns(Resp(200, None, None, "application/json", "valid_json")),
     Returns(Resp(404, None, None, "application/json", "valid_json")),
     Returns(Resp(500, None, None, "text/plain", ""))}

ManyOutcomes ==
    {Raises(e) : e \in TransportExceptions} \cup
    {Returns(Resp(200, None, None, "application/json", "valid_json")),
     Returns(Resp(200, None, None, "application/json", "invalid_json")),
     Returns(Resp(404, None, None, "application/json", "valid_json")),
     Returns(Resp(404, "true", None, "application/json", "valid_json")),
     Returns(Resp(408, None, None, "text/plain", "not_json")),
     Returns(Resp(409, None, None, "application/json", "valid_json")),
     Returns(Resp(429, None, "30", "application/json", "valid_json")),
     Returns(Resp(500, None, None, "text/plain", "")),
     Returns(Resp(500, "false", None, "application/json", "valid_json"))}

\* 2xx responses of every content type and body, and one failure that is retried.
DecodeOutcomes ==
    {Raises("ConnectError")} \cup
    {Returns(Resp(200, None, None, ct, tx)) :
         ct \in ContentTypes, tx \in {"valid_json", "invalid_json", "null", "not_json"}}

\* Failures that are retried: without a retry-after header, with one that is
\* too long, with one that is obeyed.
RetryOutcomes ==
    {Raises("ConnectError"),
     Returns(Resp(503, None, "61", "text/plain", "")),
     Returns(Resp(429, None, "30", "application/json", "valid_json"))}

\* What a list endpoint answers: a page, or nothing.
PageOutcomes ==
    {Raises("ConnectError"),
     Returns(Resp(200, None, None, "application/json", "valid_json"))}

WireOutcomes(w) ==
    CASE w = "few" -> FewOutcomes
      [] w = "pages" -> PageOutcomes
      [] w = "decode" -> DecodeOutcomes
      [] w = "retry" -> RetryOutcomes
      [] OTHER -> ManyOutcomes

\* The transport answers attempt i: the same outcome for every variant.
Transport(v, o) ==
    LET i == request[v].id
    IN  /\ o \in WireOutcomes(wire)
        /\ IF i <= Len(script) THEN o = script[i] /\ UNCHANGED script
           ELSE script' = Append(script, o)

SyncSend(v) ==
    /\ call.on[v] = "sync"
    /\ pc[v] = "Sent"
    /\ ~Blocked(v)
    /\ \E o \in WireOutcomes(wire) : Transport(v, o) /\ SyncHandle(v, o)
    /\ UNCHANGED <<client, call, options, wire, retries, request, sent, uuid_count>>
    /\ UNCHANGED <<pure_vars, page_vars>>

AsyncSend(v) ==
    /\ call.on[v] = "async"
    /\ pc[v] = "Sent"
    /\ ~Blocked(v)
    /\ \E o \in WireOutcomes(wire) : Transport(v, o) /\ AsyncHandle(v, o)
    /\ UNCHANGED <<client, call, options, wire, retries, request, sent, uuid_count>>
    /\ UNCHANGED <<pure_vars, page_vars>>

\* The sleep of _retry_request ends and it calls _request again.
Wake(v) ==
    /\ pc[v] = "Retrying"
    /\ ~Blocked(v)
    /\ pc' = [pc EXCEPT ![v] = "Building"]
    /\ timeout' = [timeout EXCEPT ![v] = 0]
    /\ UNCHANGED <<client, call, options, wire, script, remaining_retries, retries, request,
                   sent, trace, result, uuid_count, received>>
    /\ UNCHANGED <<pure_vars, page_vars>>

----------------------------------------------------------------------------
(* List traversal *)

NoRequest == [id |-> 0, method |-> None, headers |-> << >>]

MaxPages == 3

MaxResolves == 2

\* Cursor values of the list endpoint: its n-th page is asked for as page=Cursors[n].
Cursors == <<"1", "2", "3", "4", "5", "6">>

Cursor(n) == [k \in {"page"} |-> Cursors[n]]

\* What a page of the endpoint links to: nothing, a replacement query, an
\* absolute URL, a PageInfo with both, or a PageInfo with neither.
Links == {"none", "params", "url", "both", "neither"}

Listings ==
    {[size |-> 2, link |-> l] : l \in Links}
        \cup {[size |-> 0, link |-> l] : l \in {"none", "params"}}

Servers == UNION {[1 .. n -> Listings] : n \in 1 .. MaxPages}

PageNumber(opts) ==
    IF "page" \in DOMAIN opts.params
    THEN CHOOSE n \in 1 .. Len(Cursors) : Cursors[n] = opts.params["page"]
    ELSE 1

\* next_page_info() of the page class, computed from the response.
Link(style, n) ==
    CASE style = "none" -> << >>
      [] style = "params" -> <<PageInfo(NOT_GIVEN, <<Cursor(n)>>)>>
      [] style = "url" -> <<PageInfo(<<URL("/items", Cursor(n))>>, NOT_GIVEN)>>
      [] style = "both" -> <<PageInfo(<<URL("/other", Cursor(n))>>, <<Cursor(n)>>)>>
      [] style = "neither" -> <<PageInfo(NOT_GIVEN, NOT_GIVEN)>>

Items(n, size) == [i \in 1 .. size |-> 10 * n + i]

\* The n-th page of the endpoint; past its last page the endpoint returns an
\* empty page that links to nothing.
ServerPage(n) ==
    IF n \in 1 .. Len(server)
    THEN Page(0, Items(n, server[n].size), Link(server[n].link, n + 1))
    ELSE Page(0, << >>, << >>)

\* The page decoded from the response to the req-th logical request, made
\* with opts; it is not bound yet.
Listing(opts, req) == [ServerPage(PageNumber(opts)) EXCEPT !.request = req]

AsyncPaginator(client_, opts, page_cls, model) ==
    [client |-> client_, options |-> opts, page_cls |-> page_cls, model |-> model]

\* The executor state of the logical request in progress.
request_vars == <<options, script, pc, remaining_retries, retries, request, sent, trace,
                  timeout, result, received>>

request_remaining_retries_Carry(v) == remaining_retries[v]

\* request(cast_to, options): remaining_retries is left at its default, None.
request_remaining_retries(v) == << >>

\* _request_api_list / _get_page call client.request(page, options): a
\* logical request with opts starts, and the frame that waits for it keeps
\* what it will bind to the page.  `from` is the request that produced the
\* page this request was advanced from, 0 for a first page; `stored` says
\* that opts is the options object of the paginator of v.
RequestPage(v, client_, model, opts, from, stored, then) ==
    /\ requests' = [requests EXCEPT ![v] =
                        Append(@, [options |-> opts, from |-> from, client |-> client_,
                                   model |-> model, stored |-> stored, then |-> then,
                                   sent |-> << >>, trace |-> << >>])]
    /\ at' = [at EXCEPT ![v] = "Requesting"]
    /\ options' = [options EXCEPT ![v] = opts]
    /\ remaining_retries' = [remaining_retries EXCEPT ![v] = request_remaining_retries(v)]
    /\ pc' = [pc EXCEPT ![v] = "Building"]
    /\ retries' = [retries EXCEPT ![v] = 0]
    /\ request' = [request EXCEPT ![v] = NoRequest]
    /\ sent' = [sent EXCEPT ![v] = << >>]
    /\ trace' = [trace EXCEPT ![v] = << >>]
    /\ timeout' = [timeout EXCEPT ![v] = 0]
    /\ result' = [result EXCEPT ![v] = NoResult]
    /\ received' = [received EXCEPT ![v] = << >>]
    /\ script' = << >>

\* AsyncPaginator._get_page, run by awaiting the paginator.
_get_page(v, pag, from, stored, then) ==
    RequestPage(v, pag.client, pag.model, pag.options, from, stored, then)

_request_api_list_Eager(v, opts, from, then) ==
    /\ RequestPage(v, v, call.cast_to, opts, from, call.on[v] = "async", then)
    /\ paginator' = IF call.on[v] = "sync" THEN paginator
                    ELSE [paginator EXCEPT ![v] = <<AsyncPaginator(v, opts, "Page", call.cast_to)>>]

\* SyncAPIClient._request_api_list requests the page, to bind and return it;
\* AsyncAPIClient._request_api_list returns a paginator.
_request_api_list(v, opts, from, then) ==
    IF call.on[v] = "sync"
    THEN /\ RequestPage(v, v, call.cast_to, opts, from, FALSE, then)
         /\ UNCHANGED paginator
    ELSE /\ paginator' = [paginator EXCEPT ![v] = <<AsyncPaginator(v, opts, "Page", call.cast_to)>>]
         /\ at' = [at EXCEPT ![v] = "Paginator"]
         /\ UNCHANGED <<requests, request_vars>>

\* The pages of v with `page` as the method called on it left it.
Mutated(pages, page, self) ==
    [k \in 1 .. Len(pages) |-> IF pages[k] = page THEN self ELSE pages[k]]

\* get_next_page of a bound page; the cooperative variant awaits the
\* paginator that _request_api_list returns.
get_next_page(v, page, then) ==
    LET info == next_page_info(page)
    IN  IF info = << >>
        THEN /\ at' = [at EXCEPT ![v] = "RuntimeError"]
             /\ UNCHANGED <<requests, handed, yielded, paginator, request_vars>>
        ELSE LET o == _info_to_options(page, info[1])
                 b == page.bound[1]
             IN  /\ handed' = [handed EXCEPT ![v] = Mutated(@, page, o.self)]
                 /\ yielded' = [yielded EXCEPT ![v] = Mutated(@, page, o.self)]
                 /\ IF o.error # None
                    THEN /\ at' = [at EXCEPT ![v] = o.error]
                         /\ UNCHANGED <<requests, paginator, request_vars>>
                    ELSE IF call.on[v] = "sync"
                    THEN _request_api_list(v, o.options, page.request, then)
                    ELSE /\ _get_page(v, AsyncPaginator(b.client, o.options, "Page", b.model),
                                      page.request, FALSE, then)
                         /\ UNCHANGED paginator

\* `yield page` of iter_pages and the items __iter__ / __aiter__ yield from it.
yield_Before(pages, page) == <<page>> \o pages

yield(pages, page) == Append(pages, page)

\* Number of times the paginator of v was awaited.
Resolutions(v) ==
    Cardinality({k \in 1 .. Len(requests[v]) : requests[v][k].from = 0})

\* The caller advanced twice from one page.
Reissued(v) ==
    \E j, k \in 1 .. Len(requests[v]) :
        j < k /\ requests[v][j].from > 0 /\ requests[v][j].from = requests[v][k].from

\* One traversal is followed in each behaviour: the variants share no state.
get_api_list(v) ==
    /\ \A w \in Variants : at[w] = "Start"
    /\ _request_api_list(v, options[v], 0, "Page")
    /\ UNCHANGED <<client, call, wire, uuid_count, server, handed, yielded, iterated>>
    /\ UNCHANGED pure_vars

\* The caller awaits the paginator get_api_list returned, again if it likes
\* before it advances.
__await__(v) ==
    /\ paginator[v] # << >>
    /\ at[v] \in {"Paginator", "Page"}
    /\ Len(requests[v]) = Resolutions(v)
    /\ Resolutions(v) < MaxResolves
    /\ _get_page(v, paginator[v][1], 0, TRUE, "Page")
    /\ UNCHANGED <<client, call, wire, uuid_count, server, paginator, handed, yielded, iterated>>
    /\ UNCHANGED pure_vars

\* The steps of the executor of the logical request v waits for.
Fetch(v) ==
    /\ at[v] = "Requesting"
    /\ Dispatch(v) \/ SyncSend(v) \/ AsyncSend(v) \/ Wake(v)

\* client.request returns or raises in the frame that called it:
\* _request_api_list / _get_page bind the page and return it, and iter_pages
\* yields it; an error of the executor propagates to the caller.
Return(v) ==
    /\ at[v] = "Requesting"
    /\ Done(v)
    /\ LET req == Len(requests[v])
           r == requests[v][req]
           page == _set_private_attributes(Listing(options[v], req), r.client, r.model,
                                           options[v])
       IN  /\ requests' = [requests EXCEPT ![v][req] =
                               [@ EXCEPT !.options = options[v], !.sent = sent[v],
                                         !.trace = trace[v]]]
           /\ paginator' = IF r.stored
                           THEN [paginator EXCEPT ![v] = <<[@[1] EXCEPT !.options = options[v]]>>]
                           ELSE paginator
           /\ IF pc[v] = "Succeeded"
              THEN /\ handed' = [handed EXCEPT ![v] = Append(@, page)]
                   /\ at' = [at EXCEPT ![v] = r.then]
                   /\ IF r.then = "Yielded"
                      THEN /\ yielded' = [yielded EXCEPT ![v] = yield(@, page)]
                           /\ iterated' = [iterated EXCEPT ![v] = @ \o _get_page_items(page)]
                      ELSE UNCHANGED <<yielded, iterated>>
              ELSE /\ at' = [at EXCEPT ![v] = result[v].type]
                   /\ UNCHANGED <<handed, yielded, iterated>>
    /\ UNCHANGED <<exec_vars, pure_vars, server>>

\* The caller calls get_next_page on the page it holds, or once more on the
\* page it advanced from.
Call_get_next_page(v) ==
    /\ at[v] = "Page"
    /\ \E k \in 1 .. Len(handed[v]) :
           /\ \/ k = Len(handed[v])
              \/ /\ k = Len(handed[v]) - 1
                 /\ ~Reissued(v)
                 /\ requests[v][handed[v][Len(handed[v])].request].from = handed[v][k].request
           /\ get_next_page(v, handed[v][k], "Page")
    /\ UNCHANGED <<client, call, wire, uuid_count, server, iterated>>
    /\ UNCHANGED pure_vars

\* The caller starts iterating the page it holds: iter_pages yields it.
iter_pages(v) ==
    /\ at[v] = "Page"
    /\ LET page == handed[v][Len(handed[v])]
       IN  /\ yielded' = [yielded EXCEPT ![v] = yield(<< >>, page)]
           /\ iterated' = [iterated EXCEPT ![v] = _get_page_items(page)]
    /\ at' = [at EXCEPT ![v] = "Yielded"]
    /\ UNCHANGED <<server, paginator, requests, handed>>
    /\ UNCHANGED <<exec_vars, pure_vars>>

\* The caller asks the iteration for the next page.
Resume(v) ==
    /\ at[v] = "Yielded"
    /\ LET page == yielded[v][Len(yielded[v])]
       IN  IF has_next_page(page)
           THEN get_next_page(v, page, "Yielded")
           ELSE /\ at' = [at EXCEPT ![v] = "Done"]
                /\ UNCHANGED <<paginator, requests, handed, yielded, request_vars>>
    /\ UNCHANGED <<client, call, wire, uuid_count, server, iterated>>
    /\ UNCHANGED pure_vars

----------------------------------------------------------------------------
(* Specifications *)

\* Request options without a body, for the path /items without a query.
Options(m, h, mr, k) ==
    [method |-> m, headers |-> h, max_retries |-> mr, idempotency_key |-> k,
     json_data |-> NoJson, extra_json |-> NoJson,
     url |-> URL("/items", NoQuery), params |-> NoQuery]

\* Request options with query parameters.
WithParams(opts, params) == [opts EXCEPT !.params = params]

\* Request options with a body (json_data) and extra_body (extra_json).
WithBody(opts, json_data, extra_json) ==
    [opts EXCEPT !.json_data = json_data, !.extra_json = extra_json]

\* A client whose header validation hook accepts every header combination.
Client(mr, ih, ch, st, ds) ==
    [max_retries |-> mr, idempotency_header |-> ih, custom_headers |-> ch,
     strict |-> st, default_stream_cls |-> ds, required_headers |-> {}]

\* A client whose header validation hook requires the given headers.
Requiring(c, names) == [c EXCEPT !.required_headers = names]

\* One call made on each client: executor v runs it on the client of variant v.
Call(ct, st, sc) ==
    [cast_to |-> ct, stream |-> st, stream_cls |-> sc, on |-> [v \in Variants |-> v]]

\* Two calls made on the cooperative client: both executors are logical
\* requests of AsyncAPIClient.
Concurrent(c) == [c EXCEPT !.on = [v \in Variants |-> "async"]]

NoHeaders == [k \in {} |-> None]

InitOn(clients, calls, opts, wires, servers) ==
    /\ client \in clients
    /\ call \in calls
    /\ wire \in wires
    /\ \E o \in opts : options = [v \in Variants |-> o]
    /\ script = << >>
    /\ pc = [v \in Variants |-> "Building"]
    /\ remaining_retries = [v \in Variants |-> << >>]
    /\ retries = [v \in Variants |-> 0]
    /\ request = [v \in Variants |-> NoRequest]
    /\ sent = [v \in Variants |-> << >>]
    /\ trace = [v \in Variants |-> << >>]
    /\ timeout = [v \in Variants |-> 0]
    /\ result = [v \in Variants |-> NoResult]
    /\ uuid_count = 0
    /\ received = [v \in Variants |-> << >>]
    /\ fn = None
    /\ arg = NoResponse
    /\ res = FALSE
    /\ server \in servers
    /\ at = [v \in Variants |-> "Start"]
    /\ paginator = [v \in Variants |-> << >>]
    /\ requests = [v \in Variants |-> << >>]
    /\ handed = [v \in Variants |-> << >>]
    /\ yielded = [v \in Variants |-> << >>]
    /\ iterated = [v \in Variants |-> << >>]

\* No list endpoint is traversed.
InitWith(clients, calls, opts, wires) == InitOn(clients, calls, opts, wires, {<< >>})

Budgets == 0 .. MaxRetries

Init ==
    InitWith({Client(mr, IdempotencyHeaderName, NoHeaders, TRUE, None) : mr \in Budgets},
             {Call("Model", FALSE, None)},
             {Options("post", NoHeaders, mr, None) : mr \in {<< >>, <<1>>}},
             {"many"})

Next ==
    \E v \in Variants : Dispatch(v) \/ SyncSend(v) \/ AsyncSend(v) \/ Wake(v)

Spec == Init /\ [][Next]_vars

\* The steps of the executor of variant v.
Step(v) == Dispatch(v) \/ SyncSend(v) \/ AsyncSend(v) \/ Wake(v)

\* Every transport call and every sleep completes, and a running executor takes
\* its next step.
Fairness == \A v \in Variants : WF_vars(Step(v))

InitFair ==
    InitWith({Client(mr, IdempotencyHeaderName, NoHeaders, TRUE, None) : mr \in Budgets},
             {Call("Model", FALSE, None)},
             {Options("post", NoHeaders, << >>, None)},
             {"few"})

FairSpec == InitFair /\ [][Next]_vars /\ Fairness

\* Request options and client configurations that decide the idempotency header.
IdemHeaders ==
    {NoHeaders,
     [k \in {IdempotencyHeaderName} |-> "caller-header"],
     [k \in {IdempotencyHeaderName} |-> Omit]}

InitIdem ==
    InitWith({Client(MaxRetries, ih, NoHeaders, TRUE, None) : ih \in {None, IdempotencyHeaderName}},
             {Call("Model", FALSE, None)},
             {Options(m, h, << >>, k) :
                  m \in {"get", "post"}, h \in IdemHeaders, k \in {None, "caller-key"}},
             {"few"})

SpecIdem == InitIdem /\ [][Next]_vars

\* Every expected type, strict and permissive construction, every content type.
InitDecode ==
    InitWith({Client(1, IdempotencyHeaderName, NoHeaders, st, None) : st \in BOOLEAN},
             {Call(ct, FALSE, None) : ct \in CastTo},
             {Options("post", NoHeaders, << >>, None)},
             {"decode"})

SpecDecode == InitDecode /\ [][Next]_vars

\* Streamed and plain calls, with and without an explicit and a default stream class.
InitStream ==
    InitWith({Client(MaxRetries, IdempotencyHeaderName, NoHeaders, TRUE, ds) :
                  ds \in {None, "DefaultStream"}},
             {Call("Model", st, sc) : st \in BOOLEAN, sc \in {None, "ExplicitStream"}},
             {Options("post", NoHeaders, << >>, None)},
             {"few"})

SpecStream == InitStream /\ [][Next]_vars

\* Bodies that serialize to distinct keys, to duplicate keys, and that are no mapping.
JsonBodies ==
    {NoJson, JsonList,
     JsonMapping([k \in {} |-> None]),
     JsonMapping([k \in {"a"} |-> "1"]),
     JsonMapping([k \in {"a"} |-> "[1]"]),
     JsonMapping([k \in {"a"} |-> "[1,2]"]),
     JsonMapping([k \in {"a", "a[]"} |-> IF k = "a" THEN "[1]" ELSE "1"])}

BuildHeaders ==
    {NoHeaders,
     [k \in {"Content-Type"} |-> "multipart/form-data"],
     [k \in {"X-Api-Key"} |-> "secret"],
     [k \in {"Content-Type", "X-Api-Key"} |->
          IF k = "X-Api-Key" THEN "secret" ELSE "multipart/form-data"]}

\* Well-formed and misconfigured requests, with and without a retry budget.
InitBuild ==
    InitWith({Requiring(Client(mr, IdempotencyHeaderName, NoHeaders, TRUE, None), names) :
                  mr \in {0, MaxRetries}, names \in {{}, {"X-Api-Key"}}},
             {Call("Model", FALSE, None)},
             {WithBody(Options("post", h, << >>, None), jd, ej) :
                  h \in BuildHeaders, jd \in JsonBodies,
                  ej \in {NoJson, JsonMapping([k \in {"b"} |-> "[1,2]"])}},
             {"few"})

SpecBuild == InitBuild /\ [][Next]_vars

\* Budgets deep enough for the backoff to reach its maximum.
InitBackoff ==
    InitWith({Client(mr, IdempotencyHeaderName, NoHeaders, TRUE, None) :
                  mr \in {MaxRetries, MaxBackoffRetries}},
             {Call("Model", FALSE, None)},
             {Options("post", NoHeaders, << >>, None)},
             {"retry"})

SpecBackoff == InitBackoff /\ [][Next]_vars

\* Two logical requests with the same options in flight on one cooperative
\* client; the transport answers the i-th attempt of both alike.
InitTasks ==
    InitWith({Client(mr, IdempotencyHeaderName, NoHeaders, TRUE, None) : mr \in Budgets},
             {Concurrent(Call("Model", FALSE, None))},
             {Options("post", NoHeaders, mr, None) : mr \in {<< >>, <<1>>}},
             {"few"})

NextTasks ==
    \E v \in Variants : Dispatch(v) \/ AsyncSend(v) \/ Wake(v)

SpecTasks == InitTasks /\ [][NextTasks]_vars

\* A caller lists an endpoint and walks its pages.
InitPages ==
    InitOn({Client(0, None, NoHeaders, TRUE, None)},
           {Call("Model", FALSE, None)},
           {WithParams(Options("get", NoHeaders, << >>, None), [k \in {"limit"} |-> "10"])},
           {"pages"},
           Servers)

NextPages ==
    \E v \in Variants :
        \/ get_api_list(v)
        \/ __await__(v)
        \/ Fetch(v)
        \/ Return(v)
        \/ Call_get_next_page(v)
        \/ iter_pages(v)
        \/ Resume(v)

SpecPages == InitPages /\ [][NextPages]_vars

\* Endpoints whose pages all have items and link to the next page, if they
\* link at all, in one of the two ways PageInfo is meant to be built.
Chains ==
    {s \in Servers : \A n \in DOMAIN s : s[n].size > 0 /\ s[n].link \in {"none", "params", "url"}}

\* A caller lists an endpoint with POST on a client that sends idempotency keys.
InitKeys ==
    InitOn({Client(0, IdempotencyHeaderName, NoHeaders, TRUE, None)},
           {Call("Model", FALSE, None)},
           {Options("post", NoHeaders, << >>, None)},
           {"pages"},
           Chains)

SpecKeys == InitKeys /\ [][NextPages]_vars

\* A caller lists an endpoint on a client that retries, with and without a
\* budget of its own in the options.
InitFetch ==
    InitOn({Client(1, None, NoHeaders, TRUE, None)},
           {Call("Model", FALSE, None)},
           {Options("get", NoHeaders, mr, None) : mr \in {<< >>, <<0>>}},
           {"pages"},
           {s \in Chains : \A n \in DOMAIN s : s[n].link # "url"})

SpecFetch == InitFetch /\ [][NextPages]_vars

\* The pure functions applied to inputs drawn from bounded sets.
InitPure ==
    InitWith({Client(MaxBackoffRetries, None, NoHeaders, TRUE, None)},
             {Call("Model", FALSE, None)},
             {Options("get", NoHeaders, << >>, None)},
             {"few"})

\* One function is applied to one input in each behaviour.
Call_should_retry ==
    /\ fn = None
    /\ \E r \in Responses :
           /\ fn' = "_should_retry"
           /\ arg' = r
           /\ res' = _should_retry(r)
    /\ UNCHANGED <<exec_vars, page_vars>>

Call_make_status_error_from_response ==
    /\ fn = None
    /\ \E r \in Responses :
           /\ raise_for_status(r)
           /\ fn' = "_make_status_error_from_response"
           /\ arg' = r
           /\ res' = _make_status_error_from_response(1, 1, r)
    /\ UNCHANGED <<exec_vars, page_vars>>

MappingKeys == {"a", "b"}

\* The mappings over some of the keys, with values that may be Omit.
Mappings ==
    UNION {[ks -> {"x", "y", Omit}] : ks \in SUBSET MappingKeys}

Call_merge_mappings ==
    /\ fn = None
    /\ \E obj1, obj2 \in Mappings :
           /\ fn' = "_merge_mappings"
           /\ arg' = <<obj1, obj2>>
           /\ res' = _merge_mappings(obj1, obj2)
    /\ UNCHANGED <<exec_vars, page_vars>>

Call_calculate_retry_timeout ==
    /\ fn = None
    /\ \E remaining \in 0 .. client.max_retries - 1, h \in RetryAfterHeaders,
          given \in BOOLEAN, rnd \in RandomValues :
           /\ fn' = "_calculate_retry_timeout"
           /\ arg' = [remaining |-> remaining, response_headers |-> given,
                      retry_after |-> h, random |-> rnd]
           /\ res' = _calculate_retry_timeout(
                         remaining, options["sync"],
                         IF given THEN <<Resp(429, None, h, None, "")>> ELSE << >>, rnd)
    /\ UNCHANGED <<exec_vars, page_vars>>

\* Query parameters of the current options, of a next-page URL and of a
\* replacement mapping.
Queries ==
    {NoQuery,
     [k \in {"page"} |-> "2"],
     [k \in {"limit"} |-> "10"],
     [k \in {"limit", "page"} |-> IF k = "page" THEN "2" ELSE "5"],
     [k \in {"after"} |-> "x"]}

\* What a caller can pass for url and for params.
UrlArguments == {NOT_GIVEN} \cup {<<URL("/next", q)>> : q \in Queries}

ParamsArguments == {NOT_GIVEN} \cup {<<q>> : q \in Queries}

Call_PageInfo ==
    /\ fn = None
    /\ \E url \in UrlArguments, params \in ParamsArguments :
           /\ fn' = "PageInfo"
           /\ arg' = [url |-> url, params |-> params]
           /\ res' = PageInfo(url, params)
    /\ UNCHANGED <<exec_vars, page_vars>>

\* The PageInfo objects that can be constructed.
PageInfos == {PageInfo(url, params) : url \in UrlArguments, params \in ParamsArguments}

ItemLists == {<< >>, <<1>>, <<1, 2, 3>>}

Call_has_next_page ==
    /\ fn = None
    /\ \E items \in ItemLists, info \in {<< >>} \cup {<<i>> : i \in PageInfos} :
           /\ fn' = "has_next_page"
           /\ arg' = Page(1, items, info)
           /\ res' = has_next_page(arg')
    /\ UNCHANGED <<exec_vars, page_vars>>

Call_info_to_options ==
    /\ fn = None
    /\ \E q \in Queries, info \in PageInfos :
           LET opts == WithParams(options["sync"], q)
               page == _set_private_attributes(Page(1, <<1>>, <<info>>), "client", "Model", opts)
           IN  /\ fn' = "_info_to_options"
               /\ arg' = [page |-> page, info |-> info]
               /\ res' = _info_to_options(page, info)
    /\ UNCHANGED <<exec_vars, page_vars>>

NextPure ==
    \/ Call_PageInfo
    \/ Call_has_next_page
    \/ Call_info_to_options
    \/ Call_should_retry
    \/ Call_make_status_error_from_response
    \/ Call_merge_mappings
    \/ Call_calculate_retry_timeout

SpecPure == InitPure /\ [][NextPure]_vars

----------------------------------------------------------------------------
(* Vocabulary of the properties *)

\* The retry budget the logical request of variant v starts with.
Budget(v) == get_max_retries(options[v], client.max_retries)

Dispatches(v) == Len(sent[v])

Sleeps(v) == Cardinality({i \in 1 .. Len(trace[v]) : trace[v][i] = "sleep"})

\* The executor of v has seen the outcome of attempt i.
Handled(v, i) ==
    /\ i \in 1 .. Dispatches(v)
    /\ i <= Len(script)
    /\ i < Dispatches(v) \/ pc[v] # "Sent"

\* The executor of v answered attempt i with a retry.
Retried(v, i) ==
    i < Dispatches(v) \/ (i = Dispatches(v) /\ pc[v] \in {"Retrying", "Building"})

\* The logical request of v ended with attempt i: nothing was dispatched and no
\* sleep was started after it.
EndedAt(v, i) ==
    /\ i = Dispatches(v)
    /\ Done(v)
    /\ trace[v][Len(trace[v])] = "dispatch"

\* Budget left when attempt i is made, if every earlier attempt cost one retry.
BudgetAt(v, i) == Budget(v) - (i - 1)

IsErrorStatus(o) == o.exc = None /\ (o.resp.status < 200 \/ o.resp.status >= 300)

IsSuccessStatus(o) == o.exc = None /\ o.resp.status >= 200 /\ o.resp.status < 300

----------------------------------------------------------------------------
(* Properties of the request executor *)

\* C1: a logical request with retry budget B >= 0 dispatches at most B+1 wire
\* requests; every retry lowers the remaining count by exactly one (after k
\* sleeps the count is B-k); the remaining count is never negative.
C1_RetryBudget ==
    \A v \in Variants :
        /\ Budget(v) >= 0
        /\ Dispatches(v) <= Budget(v) + 1
        /\ retries[v] >= 0
        /\ remaining_retries[v] # << >> =>
               /\ remaining_retries[v][1] >= 0
               /\ remaining_retries[v][1] = Budget(v) - Sleeps(v)
        /\ remaining_retries[v] = << >> => Sleeps(v) = 0

\* A request that used its whole budget of at least two retries has ended.
C1_Witness ==
    \E v \in Variants :
        /\ Done(v)
        /\ Budget(v) >= 2
        /\ Dispatches(v) = Budget(v) + 1
        /\ remaining_retries[v] = <<0>>

\* C2: a ReadTimeout raised by the transport ends the logical request at once in
\* both variants: it is Failed, with no sleep and no dispatch after that attempt.
C2_ReadTimeoutTerminal ==
    \A v \in Variants : \A i \in 1 .. Dispatches(v) :
        (Handled(v, i) /\ script[i].exc = "ReadTimeout") =>
            (EndedAt(v, i) /\ pc[v] = "Failed")

\* C3: for a non-GET request of a client with an idempotency header configured,
\* every wire request carries the header with one and the same value, a key is
\* generated at most once per logical request, and a generated key is the one
\* cached on the request options.
C3_IdempotencyKeyStable ==
    \A v \in Variants :
        (options[v].method # "get" /\ client.idempotency_header # None) =>
            /\ \A i \in 1 .. Dispatches(v) :
                   /\ client.idempotency_header \in DOMAIN sent[v][i].headers
                   /\ sent[v][i].headers[client.idempotency_header]
                          = sent[v][1].headers[client.idempotency_header]
            /\ uuid_count <= Cardinality({w \in Variants : Dispatches(w) > 0})
            /\ \A i \in 1 .. Dispatches(v) :
                   client.idempotency_header \notin DOMAIN _merge_mappings(default_headers, options[v].headers)
                       => sent[v][i].headers[client.idempotency_header] = options[v].idempotency_key

\* A request whose key was generated has been retried twice.
C3_Witness ==
    \E v \in Variants :
        /\ options[v].method = "post"
        /\ Dispatches(v) = 3
        /\ uuid_count > 0
        /\ options[v].idempotency_key \notin {None, "caller-key"}
        /\ sent[v][3].headers[IdempotencyHeaderName] = options[v].idempotency_key

\* C4: on the same options, configuration and transport outcomes the two variants
\* make the same number of dispatches and sleeps and end in the same outcome.
C4_VariantsAgree ==
    (Done("sync") /\ Done("async")) =>
        /\ Dispatches("sync") = Dispatches("async")
        /\ Sleeps("sync") = Sleeps("async")
        /\ result["sync"].state = result["async"].state
        /\ result["sync"].type = result["async"].type

\* C5: x-should-retry "true" gives true and "false" gives false whatever the
\* status; otherwise the result is true exactly for 409, 429 and >= 500.
C5_ShouldRetry ==
    fn = "_should_retry" =>
        res = CASE arg.x_should_retry = "true" -> TRUE
                [] arg.x_should_retry = "false" -> FALSE
                [] OTHER -> arg.status \in {409, 429} \/ arg.status >= 500

\* The header overrides the status, and 408 is not retried.
C5_Witness ==
    /\ fn = "_should_retry"
    /\ \/ arg.status = 500 /\ arg.x_should_retry = "false" /\ ~res
       \/ arg.status = 408 /\ arg.x_should_retry = "maybe" /\ ~res

\* C6: a non-2xx response is retried iff budget remains and shouldRetry holds of
\* it; otherwise the request fails with the status error classified from that
\* same response.
C6_StatusRetryOrFail ==
    \A v \in Variants : \A i \in 1 .. Dispatches(v) :
        (Handled(v, i) /\ IsErrorStatus(script[i])) =>
            IF BudgetAt(v, i) > 0 /\ _should_retry(script[i].resp)
            THEN Retried(v, i)
            ELSE /\ EndedAt(v, i)
                 /\ pc[v] = "Failed"
                 /\ result[v].type = _make_status_error(script[i].resp.status)
                 /\ result[v].request = i
                 /\ result[v].response = i

\* The budget ran out on a retryable status: the last response is surfaced.
C6_Witness ==
    \E v \in Variants :
        /\ Budget(v) = 2
        /\ EndedAt(v, 3)
        /\ script[1].resp.status = 429
        /\ script[2].resp.status = 409
        /\ script[3].resp.status = 500
        /\ result[v].type = "InternalServerError"
        /\ result[v].response = 3

NotReadTimeout == {"ConnectTimeout", "WriteTimeout", "ConnectError"}

\* C7: a connection failure, connect timeout or generic timeout is retried while
\* budget remains; with no budget the request fails with APITimeoutError for the
\* timeouts and APIConnectionError otherwise, carrying that attempt's request.
C7_TransportFailure ==
    \A v \in Variants : \A i \in 1 .. Dispatches(v) :
        (Handled(v, i) /\ script[i].exc \in NotReadTimeout) =>
            IF BudgetAt(v, i) > 0
            THEN Retried(v, i)
            ELSE /\ EndedAt(v, i)
                 /\ pc[v] = "Failed"
                 /\ result[v].type = IF script[i].exc = "ConnectError"
                                     THEN "APIConnectionError" ELSE "APITimeoutError"
                 /\ result[v].request = i
                 /\ result[v].response = 0

\* Retried twice on transport failures, then failed on a connection failure.
C7_Witness ==
    \E v \in Variants :
        /\ Budget(v) = 2
        /\ EndedAt(v, 3)
        /\ script[1].exc = "ConnectTimeout"
        /\ script[2].exc = "WriteTimeout"
        /\ script[3].exc = "ConnectError"
        /\ result[v].type = "APIConnectionError"

\* Failures the specification calls retry-eligible.
RetryEligible(o) ==
    \/ o.exc \in NotReadTimeout
    \/ IsErrorStatus(o) /\ _should_retry(o.resp)

\* dispatch, sleep, dispatch, ..., dispatch with n dispatches.
Alternates(t, n) ==
    /\ Len(t) = 2 * n - 1
    /\ \A j \in 1 .. Len(t) : t[j] = IF j % 2 = 1 THEN "dispatch" ELSE "sleep"

\* C8: when the first k attempts fail retry-eligibly and attempt k+1 returns a
\* 2xx status, the request ends at attempt k+1 after exactly k sleeps, each
\* between two dispatches, and a response that decodes is returned as the result.
C8_RetryThenSuccess ==
    \A v \in Variants :
        LET n == Dispatches(v)
        IN  (/\ n >= 1
             /\ Handled(v, n)
             /\ IsSuccessStatus(script[n])
             /\ \A i \in 1 .. n - 1 : RetryEligible(script[i])) =>
                /\ EndedAt(v, n)
                /\ Alternates(trace[v], n)
                /\ Sleeps(v) = n - 1
                /\ script[n].resp.text = "valid_json" =>
                       /\ pc[v] = "Succeeded"
                       /\ result[v].response = n
                       /\ result[v].body = <<"validated", "valid_json">>

\* ConnectTimeout on attempt 1 of a request with budget 2, then a 200.
C8_Witness ==
    \E v \in Variants :
        /\ Budget(v) = 2
        /\ Dispatches(v) = 2
        /\ Handled(v, 2)
        /\ script[1].exc = "ConnectTimeout"
        /\ IsSuccessStatus(script[2])
        /\ pc[v] = "Succeeded"
        /\ trace[v] = <<"dispatch", "sleep", "dispatch">>

\* C9: if every transport call and every sleep completes, every logical request
\* reaches Succeeded or Failed.
C9_Terminates == <>(\A v \in Variants : Done(v))

\* A request that was retried has ended.
C9_Witness == \E v \in Variants : Done(v) /\ Sleeps(v) = 2

\* C10: a 2xx response that fails schema validation ends the request with
\* APIResponseValidationError carrying the request and the response; nothing is
\* dispatched and no sleep starts after it, whatever budget remains.
C10_DecodeFailureFatal ==
    \A v \in Variants : \A i \in 1 .. Dispatches(v) :
        (/\ Handled(v, i)
         /\ IsSuccessStatus(script[i])
         /\ script[i].resp.text = "invalid_json") =>
            /\ EndedAt(v, i)
            /\ pc[v] = "Failed"
            /\ result[v].type = "APIResponseValidationError"
            /\ result[v].request = i
            /\ result[v].response = i

\* Validation failed on the first attempt with the whole budget left.
C10_Witness ==
    \E v \in Variants :
        /\ retries[v] = 2
        /\ Dispatches(v) = 1
        /\ result[v].type = "APIResponseValidationError"

\* Expected types that _process_response decodes from JSON.
JsonCastTo == {"UnknownResponse", "Model", "BuilderModel"}

\* C11: when the expected type needs JSON decoding and the Content-Type, without
\* its ';...' suffix, is not application/json, the logical request fails with a
\* ResponseValidationError-class error and is not retried.
C11_ContentTypeMismatch ==
    \A v \in Variants : \A i \in 1 .. Dispatches(v) :
        (/\ Handled(v, i)
         /\ IsSuccessStatus(script[i])
         /\ ~call.stream
         /\ call.cast_to \in JsonCastTo
         /\ script[i].resp.content_type
                \notin {None, "application/json", "application/json; charset=utf-8"}) =>
            /\ EndedAt(v, i)
            /\ pc[v] = "Failed"
            /\ result[v].type = "APIResponseValidationError"

\* Error classes of the taxonomy.
ErrorTaxonomy ==
    {"APIConnectionError", "APITimeoutError", "APIResponseValidationError",
     "MissingStreamClassError", "APIStatusError", "BadRequestError",
     "AuthenticationError", "PermissionDeniedError", "NotFoundError", "ConflictError",
     "UnprocessableEntityError", "RateLimitError", "InternalServerError"}

\* C12: every error surfaced after at least one dispatch is a member of the
\* taxonomy, carries the request of the attempt it ends, and carries the
\* response of that attempt when one was received.
C12_ErrorsCarryContext ==
    \A v \in Variants :
        (pc[v] = "Failed" /\ Dispatches(v) >= 1) =>
            LET i == Dispatches(v)
            IN  /\ result[v].type \in ErrorTaxonomy
                /\ result[v].request = i
                /\ script[i].exc = None => result[v].response = i

\* C13: with stream=true a 2xx response is returned live, wrapped in the explicit
\* stream_cls if given, else in the client default; with neither the request
\* fails with MissingStreamClassError; either way the request ends at that
\* attempt, whatever budget remains.
C13_StreamWrapper ==
    \A v \in Variants : \A i \in 1 .. Dispatches(v) :
        (Handled(v, i) /\ IsSuccessStatus(script[i]) /\ call.stream) =>
            /\ EndedAt(v, i)
            /\ IF call.stream_cls # None
               THEN /\ pc[v] = "Succeeded"
                    /\ result[v].type = call.stream_cls
                    /\ result[v].response = i
                    /\ result[v].body = <<call.stream_cls, "live">>
               ELSE IF client.default_stream_cls # None
               THEN /\ pc[v] = "Succeeded"
                    /\ result[v].type = client.default_stream_cls
                    /\ result[v].response = i
                    /\ result[v].body = <<client.default_stream_cls, "live">>
               ELSE /\ pc[v] = "Failed"
                    /\ result[v].type = "MissingStreamClassError"

\* The missing-stream-handler error was raised on a retry, with budget left.
C13_Witness ==
    \E v \in Variants :
        /\ call.stream
        /\ Dispatches(v) = 2
        /\ retries[v] >= 1
        /\ pc[v] = "Failed"
        /\ result[v].type = "MissingStreamClassError"

\* The header validation hook rejects the merged headers of the request of v.
HookRejects(v) ==
    \E h \in client.required_headers :
        /\ h \notin DOMAIN client.custom_headers
        /\ h \notin DOMAIN options[v].headers

\* The body of the request of v is no mapping and extra_body is given.
NonMergeableBody(v) ==
    options[v].json_data.kind = "list" /\ options[v].extra_json.kind = "mapping"

\* The request of v is multipart and an array of its body has two elements.
DuplicateMultipartKeys(v) ==
    /\ "Content-Type" \in DOMAIN options[v].headers
    /\ options[v].headers["Content-Type"] = "multipart/form-data"
    /\ \/ options[v].extra_json.kind = "mapping" /\ options[v].json_data.kind # "list"
       \/ /\ options[v].json_data.kind = "mapping"
          /\ \E k \in DOMAIN options[v].json_data.map :
                 \/ options[v].json_data.map[k] = "[1,2]"
                 \/ /\ options[v].json_data.map[k] = "[1]"
                    /\ (k \o "[]") \in DOMAIN options[v].json_data.map

BuildErrors == {"HeaderValidationError", "RuntimeError", "TypeError", "ValueError"}

\* C14: a request whose headers the validation hook rejects, whose multipart
\* body serializes to duplicate keys, or whose body cannot be merged with
\* extra_body is never dispatched and never sleeps for a retry: once started
\* it has failed with the configuration error, whatever the retry budget.
C14_ConfigurationErrorsFatal ==
    \A v \in Variants :
        (HookRejects(v) \/ NonMergeableBody(v) \/ DuplicateMultipartKeys(v)) =>
            /\ Dispatches(v) = 0
            /\ Sleeps(v) = 0
            /\ pc[v] \in {"Building", "Failed"}
            /\ pc[v] = "Failed" => result[v].type \in BuildErrors
            /\ pc[v] = "Building" => remaining_retries[v] = << >>

\* A multipart body with duplicate keys failed the request although retries
\* were left.
C14_Witness ==
    \E v \in Variants :
        /\ DuplicateMultipartKeys(v)
        /\ ~HookRejects(v)
        /\ ~NonMergeableBody(v)
        /\ Budget(v) = MaxRetries
        /\ pc[v] = "Failed"
        /\ result[v].type = "ValueError"
        /\ Dispatches(v) = 0

\* C15: the class of a status error is decided by the status code alone: 400
\* BadRequest, 401 Authentication, 403 PermissionDenied, 404 NotFound, 409
\* Conflict, 422 UnprocessableEntity, 429 RateLimit, 500 and above
\* InternalServer, any other code the generic status error; the error carries
\* the request, the response and, when the body is JSON, the parsed body.
C15_Classify ==
    fn = "_make_status_error_from_response" =>
        /\ res.type = IF arg.status = 400 THEN "BadRequestError"
                      ELSE IF arg.status = 401 THEN "AuthenticationError"
                      ELSE IF arg.status = 403 THEN "PermissionDeniedError"
                      ELSE IF arg.status = 404 THEN "NotFoundError"
                      ELSE IF arg.status = 409 THEN "ConflictError"
                      ELSE IF arg.status = 422 THEN "UnprocessableEntityError"
                      ELSE IF arg.status = 429 THEN "RateLimitError"
                      ELSE IF arg.status >= 500 THEN "InternalServerError"
                      ELSE "APIStatusError"
        /\ res.request = 1
        /\ res.response = 1
        /\ arg.text \in {"valid_json", "invalid_json", "null"} => res.body = <<"json", arg.text>>

\* A 500 with a JSON body was classified.
C15_Witness ==
    /\ fn = "_make_status_error_from_response"
    /\ arg.status = 500
    /\ arg.text = "invalid_json"
    /\ res.type = "InternalServerError"
    /\ res.body = <<"json", "invalid_json">>

\* C16 as stated: when the body of an error response is not JSON the error keeps
\* the raw text as its body and its message is "Error code: {status}"; when it
\* is JSON the error carries the parsed value.
C16_MessageFallsBack ==
    fn = "_make_status_error_from_response" =>
        IF arg.text \in {"valid_json", "invalid_json", "null"}
        THEN res.body = <<"json", arg.text>>
        ELSE /\ res.body = <<"text", arg.text>>
             /\ res.message = <<"Error code", arg.status, "">>

\* C16 amended: when the body is not JSON the error keeps the text, stripped of
\* surrounding white space, as its body, and its message is that text, or
\* "Error code: {status}" when the stripped text is empty; when the body is JSON
\* the error carries the parsed value and the message
\* "Error code: {status} - {body}".
C16_MessageIsText ==
    fn = "_make_status_error_from_response" =>
        IF arg.text \in {"valid_json", "invalid_json", "null"}
        THEN /\ res.body = <<"json", arg.text>>
             /\ res.message = <<"Error code", arg.status, arg.text>>
        ELSE IF arg.text \in {"not_json", "  not_json  "}
        THEN /\ res.body = <<"text", "not_json">>
             /\ res.message = <<"text", 0, "not_json">>
        ELSE /\ res.body = <<"text", "">>
             /\ res.message = <<"Error code", arg.status, "">>

\* A text body between white space became the body and the message.
C16_Witness ==
    /\ fn = "_make_status_error_from_response"
    /\ arg.text = "  not_json  "
    /\ res.message = <<"text", 0, "not_json">>

\* C17 as stated: a key of both mappings resolves to the custom value, and a key
\* marked omit in either mapping is not in the merged mapping.
C17_OmitInEither ==
    fn = "_merge_mappings" =>
        LET defaults == arg[1]
            custom == arg[2]
        IN  \A k \in MappingKeys :
                /\ (/\ k \in DOMAIN defaults /\ defaults[k] # Omit
                    /\ k \in DOMAIN custom /\ custom[k] # Omit) =>
                       k \in DOMAIN res /\ res[k] = custom[k]
                /\ (\/ k \in DOMAIN defaults /\ defaults[k] = Omit
                    \/ k \in DOMAIN custom /\ custom[k] = Omit) =>
                       k \notin DOMAIN res

\* C17 amended: a key resolves to the custom value when the custom mapping has
\* it and to the default value otherwise, and it is in the merged mapping
\* exactly when that value is not omit: an omit in the defaults is overridden
\* by a custom value.
C17_CustomWins ==
    fn = "_merge_mappings" =>
        LET defaults == arg[1]
            custom == arg[2]
        IN  /\ DOMAIN res \subseteq (DOMAIN defaults) \cup (DOMAIN custom)
            /\ \A k \in DOMAIN custom :
                   IF custom[k] = Omit THEN k \notin DOMAIN res
                   ELSE k \in DOMAIN res /\ res[k] = custom[k]
            /\ \A k \in (DOMAIN defaults) \ (DOMAIN custom) :
                   IF defaults[k] = Omit THEN k \notin DOMAIN res
                   ELSE k \in DOMAIN res /\ res[k] = defaults[k]

\* A custom value replaced an omit of the defaults, and a custom omit removed a
\* default value.
C17_Witness ==
    /\ fn = "_merge_mappings"
    /\ DOMAIN arg[1] = MappingKeys
    /\ DOMAIN arg[2] = MappingKeys
    /\ arg[1]["a"] = Omit /\ arg[2]["a"] = "x"
    /\ arg[1]["b"] = "y" /\ arg[2]["b"] = Omit
    /\ DOMAIN res = {"a"}
    /\ res["a"] = "x"

\* C19: the delay is the retry-after value itself when the header is an integer
\* in (0, 60], whatever the number of retries made; for no headers, no header,
\* a value that is no integer, 0, a negative value or a value above 60 it is
\* the backoff delay.
C19_RetryAfterVerbatim ==
    fn = "_calculate_retry_timeout" =>
        LET n == client.max_retries - arg.remaining
            base == Min(500 * (n - 1) * (n - 1), 2000)
            backoff == IF base + arg.random - 500 >= 0 THEN base + arg.random - 500 ELSE 0
        IN  IF arg.response_headers /\ arg.retry_after \in {"1", "30", "60"}
            THEN res = CASE arg.retry_after = "1" -> 1000
                         [] arg.retry_after = "30" -> 30000
                         [] arg.retry_after = "60" -> 60000
            ELSE res = backoff

\* Retry-after of 60 was returned for the last retry of the budget.
C19_Witness ==
    /\ fn = "_calculate_retry_timeout"
    /\ arg.response_headers
    /\ arg.retry_after = "60"
    /\ arg.remaining = 0
    /\ res = 60000

\* The keys _idempotency_key has generated so far.
GeneratedKeys == {_idempotency_key(n) : n \in 1 .. uuid_count}

\* The request of v is one to which _build_headers adds the idempotency header.
TakesIdempotencyHeader(v) ==
    /\ options[v].method # "get"
    /\ client.idempotency_header # None
    /\ client.idempotency_header \notin DOMAIN _merge_mappings(default_headers, options[v].headers)

\* C18: a key is generated only for a request that is not a GET, of a client
\* with a configured idempotency header name, whose merged headers lack that
\* header and whose options hold no key; a key of the caller is never replaced
\* and is the value of the header when the header is added; a GET request and
\* a request of a client without a header name are sent with the merged
\* headers and nothing else.
C18_IdempotencyKeyGeneration ==
    /\ [](\A v \in Variants : \A i \in 1 .. Dispatches(v) :
              LET merged == _merge_mappings(default_headers, options[v].headers)
                  name == client.idempotency_header
              IN  IF TakesIdempotencyHeader(v)
                  THEN /\ DOMAIN sent[v][i].headers = (DOMAIN merged) \cup {name}
                       /\ sent[v][i].headers[name] = options[v].idempotency_key
                       /\ options[v].idempotency_key \in GeneratedKeys \cup {"caller-key"}
                  ELSE /\ sent[v][i].headers = merged
                       /\ options[v].idempotency_key \notin GeneratedKeys)
    /\ [][\A v \in Variants :
              /\ options'[v].idempotency_key # options[v].idempotency_key =>
                     /\ options[v].idempotency_key = None
                     /\ TakesIdempotencyHeader(v)
                     /\ uuid_count' = uuid_count + 1
                     /\ options'[v].idempotency_key = _idempotency_key(uuid_count')
              /\ uuid_count' # uuid_count =>
                     \E w \in Variants :
                         options'[w].idempotency_key # options[w].idempotency_key]_vars

\* A POST was sent with the key of the caller, and again on its retry.
C18_Witness ==
    \E v \in Variants :
        /\ Dispatches(v) = 2
        /\ options[v].method = "post"
        /\ options[v].idempotency_key = "caller-key"
        /\ IdempotencyHeaderName \in DOMAIN sent[v][2].headers
        /\ sent[v][2].headers[IdempotencyHeaderName] = "caller-key"
        /\ uuid_count = 0

\* C20: while v sleeps before its n-th retry, n = max_retries - remaining
\* retries, and the failure brought no retry-after header of 1 to 60 seconds,
\* the delay is max(0, min(0.5 * (n - 1)^2, 2.0) + jitter) for a jitter of
\* [-0.5, 0.5]: at most 0.5 before the first retry, whose base is 0, and
\* between 0 and 2.5 before every retry.
C20_BackoffDelay ==
    \A v \in Variants :
        pc[v] = "Retrying" =>
            LET i == Dispatches(v)
                n == Sleeps(v)
                base == IF 500 * (n - 1) * (n - 1) < 2000 THEN 500 * (n - 1) * (n - 1) ELSE 2000
                usable == /\ script[i].exc = None
                          /\ script[i].resp.retry_after \in {"1", "30", "60"}
            IN  /\ n >= 1
                /\ remaining_retries[v] = <<Budget(v) - n>>
                /\ ~usable =>
                       /\ \E jitter \in -500 .. 500 :
                              timeout[v] = IF base + jitter >= 0 THEN base + jitter ELSE 0
                       /\ n = 1 => timeout[v] <= 500
                       /\ 0 <= timeout[v] /\ timeout[v] <= 2500

\* The fourth retry waits the maximal base plus almost the maximal jitter.
C20_Witness ==
    \E v \in Variants :
        /\ pc[v] = "Retrying"
        /\ Sleeps(v) = 4
        /\ script[Dispatches(v)].exc = "ConnectError"
        /\ timeout[v] = 2499

\* C21: a request opened with stream=true that ends on a non-2xx response fails
\* with the status error built from the complete text of that response: its
\* body is the text and its message is derived from it.
C21_StreamedErrorBodyRead ==
    \A v \in Variants : \A i \in 1 .. Dispatches(v) :
        (Handled(v, i) /\ IsErrorStatus(script[i]) /\ call.stream /\ EndedAt(v, i)) =>
            /\ pc[v] = "Failed"
            /\ result[v].type # "httpx.ResponseNotRead"
            /\ result[v].body[2] = Strip(script[i].resp.text)
            /\ result[v] = _make_status_error_from_response(i, i, script[i].resp)

\* A streamed request ended on a 404 whose JSON body the error carries.
C21_Witness ==
    \E v \in Variants :
        /\ call.stream
        /\ pc[v] = "Failed"
        /\ result[v].type = "NotFoundError"
        /\ result[v].body = <<"json", "valid_json">>

\* C30: the decoder decides by the expected type first: the no-content type
\* gives null and the text type gives the body text whatever the Content-Type;
\* the raw response type gives the response itself and a subclass of it fails
\* the request; for the types decoded from JSON, once the Content-Type is
\* application/json, a null body gives null whether the type is unknown, a
\* builder or a model and whether validation is strict or not.
C30_DecoderPrecedence ==
    \A v \in Variants : \A i \in 1 .. Dispatches(v) :
        (Handled(v, i) /\ IsSuccessStatus(script[i]) /\ ~call.stream) =>
            LET response == script[i].resp
                null == pc[v] = "Succeeded" /\ result[v].body = <<"None", "">>
            IN  /\ EndedAt(v, i)
                /\ call.cast_to = "NoneType" => null
                /\ call.cast_to = "str" =>
                       pc[v] = "Succeeded" /\ result[v].body = <<"text", response.text>>
                /\ call.cast_to = "httpx.Response" =>
                       /\ pc[v] = "Succeeded"
                       /\ result[v].type = "response"
                       /\ result[v].response = i
                /\ call.cast_to = "ResponseSubclass" =>
                       pc[v] = "Failed" /\ result[v].type = "ValueError"
                /\ (/\ call.cast_to \in JsonCastTo
                    /\ response.content_type \in
                           {"application/json", "application/json; charset=utf-8"}
                    /\ response.text = "null") => null

\* A null body answered a request for a builder type with null, under strict
\* validation.
C30_Witness ==
    \E v \in Variants :
        /\ call.cast_to = "BuilderModel"
        /\ client.strict
        /\ Dispatches(v) = 1
        /\ Handled(v, 1)
        /\ IsSuccessStatus(script[1])
        /\ script[1].resp.text = "null"
        /\ script[1].resp.content_type = "application/json; charset=utf-8"
        /\ pc[v] = "Succeeded"
        /\ result[v].body = <<"None", "">>

\* C29: on the cooperative client, while one logical request sleeps before a
\* retry or waits for the transport, every other logical request that has not
\* ended can take its next step; each spends its own budget, and two requests
\* with the same options and the same answers end alike however their steps
\* interleave.
C29_ConcurrentRequests ==
    /\ \A a, b \in Variants :
           (a # b /\ pc[a] \in {"Retrying", "Sent"} /\ ~Done(b)) =>
               ENABLED (Dispatch(b) \/ AsyncSend(b) \/ Wake(b))
    /\ \A v \in Variants :
           /\ Dispatches(v) <= Budget(v) + 1
           /\ Sleeps(v) <= Budget(v)
           /\ pc[v] = "Retrying" => remaining_retries[v] = <<Budget(v) - Sleeps(v)>>
    /\ \A a, b \in Variants :
           (Done(a) /\ Done(b)) =>
               /\ result[a] = result[b]
               /\ Dispatches(a) = Dispatches(b)
               /\ Sleeps(a) = Sleeps(b)

\* One request went through two retries to its end while the other was still in
\* its first sleep.
C29_Witness ==
    \E a, b \in Variants :
        /\ call.on[a] = "async"
        /\ call.on[b] = "async"
        /\ pc[a] = "Retrying"
        /\ Dispatches(a) = 1
        /\ Done(b)
        /\ Dispatches(b) = 3

\* C22: has_next_page is false for a page without items whatever
\* next_page_info returns, and for a page with items it is true exactly when
\* next_page_info returns a PageInfo.
C22_HasNextPage ==
    fn = "has_next_page" =>
        IF Len(arg.items) = 0 THEN res = FALSE
        ELSE res = (Len(arg.info) = 1)

\* A page without items has no next page although it names one.
C22_Witness ==
    /\ fn = "has_next_page"
    /\ Len(arg.items) = 0
    /\ Len(arg.info) = 1
    /\ res = FALSE

\* C23 as stated: for a PageInfo with a URL the next options take the URL and
\* exactly the query parameters of that URL.
C23_UrlReplacesQuery ==
    (/\ fn = "_info_to_options"
     /\ arg.info.params = NOT_GIVEN
     /\ arg.info.url # NOT_GIVEN) =>
        /\ res.error = None
        /\ res.options.url.path = arg.info.url[1].path
        /\ res.options.params = arg.info.url[1].params

\* C23 amended: for a PageInfo with a URL and no replacement mapping the next
\* options take the path of the URL, and their query is the query of the
\* current options overridden key by key by the query of the URL: a parameter
\* of the current options that the URL lacks survives.
C23_UrlMergesQuery ==
    (/\ fn = "_info_to_options"
     /\ arg.info.params = NOT_GIVEN
     /\ arg.info.url # NOT_GIVEN) =>
        LET current == arg.page.bound[1].options.params
            url == arg.info.url[1]
            next == res.options.params
        IN  /\ res.error = None
            /\ res.options.url.path = url.path
            /\ res.options.url.params = next
            /\ DOMAIN next = (DOMAIN current) \cup (DOMAIN url.params)
            /\ \A k \in DOMAIN url.params : next[k] = url.params[k]
            /\ \A k \in (DOMAIN current) \ (DOMAIN url.params) : next[k] = current[k]

\* The limit of the current options survived a URL that only names the page.
C23_Witness ==
    /\ fn = "_info_to_options"
    /\ arg.info.params = NOT_GIVEN
    /\ arg.info.url = <<URL("/next", [k \in {"page"} |-> "2"])>>
    /\ arg.page.bound[1].options.params = [k \in {"limit"} |-> "10"]
    /\ res.options.params = [k \in {"limit", "page"} |-> IF k = "page" THEN "2" ELSE "10"]

\* C25: a PageInfo is constructed exactly when one of url and params is given.
C25_ExactlyOneVariant ==
    fn = "PageInfo" =>
        (res.error = None) = ((arg.url = NOT_GIVEN) # (arg.params = NOT_GIVEN))

----------------------------------------------------------------------------
(* Traversal vocabulary *)

Last(seq) == seq[Len(seq)]

\* The page the caller of v holds or was yielded last.
Current(v) == IF at[v] = "Yielded" THEN Last(yielded[v]) ELSE Last(handed[v])

\* The page request r of v was advanced from.
AdvancedFrom(v, r) ==
    CHOOSE p \in {handed[v][k] : k \in 1 .. Len(handed[v])} : p.request = r.from

\* cur overridden key by key by repl.
Override(cur, repl) ==
    [k \in DOMAIN cur \cup DOMAIN repl |-> IF k \in DOMAIN repl THEN repl[k] ELSE cur[k]]

Neither == PageInfo(NOT_GIVEN, NOT_GIVEN)

RECURSIVE Flatten(_)
Flatten(pages) ==
    IF pages = << >> THEN << >>
    ELSE _get_page_items(Head(pages)) \o Flatten(Tail(pages))

\* The first page from n on that has no next page.
RECURSIVE ChainEnd(_)
ChainEnd(n) == IF has_next_page(ServerPage(n)) THEN ChainEnd(n + 1) ELSE n

\* C24: advancing a page takes exactly one branch.  With a replacement mapping
\* (even when a URL is set too) the options of the next request are the
\* page's options with the query overridden key by key by the mapping and
\* every other field unchanged; with a URL only, the URL branch is taken; with
\* neither, the advance fails with ValueError and no request is made.
C24_NextOptions ==
    \A v \in Variants :
        /\ \A k \in 1 .. Len(requests[v]) :
               LET r == requests[v][k]
               IN  r.from > 0 =>
                       LET p == AdvancedFrom(v, r)
                           info == next_page_info(p)[1]
                           cur == _options(p)
                       IN  /\ info # Neither
                           /\ info.params # NOT_GIVEN =>
                                  r.options = [cur EXCEPT !.params = Override(cur.params, info.params[1])]
                           /\ info.params = NOT_GIVEN =>
                                  /\ r.options.url.path = info.url[1].path
                                  /\ r.options.params = r.options.url.params
        /\ at[v] = "ValueError" =>
               /\ next_page_info(Last(handed[v])) = <<Neither>>
               /\ \A k \in 1 .. Len(requests[v]) : requests[v][k].from # Last(handed[v]).request

C24_NeitherFails ==
    \A v \in Variants :
        /\ (/\ Call_get_next_page(v) \/ Resume(v)
            /\ next_page_info(Current(v)) = <<Neither>>
            /\ at[v] = "Page" \/ has_next_page(Current(v)))
               => \/ at'[v] = "ValueError"
                  \/ Last(requests'[v]).from # Current(v).request
        /\ at[v] # "ValueError" /\ at'[v] = "ValueError" =>
               requests'[v] = requests[v] /\ sent'[v] = sent[v] /\ pc'[v] = pc[v]

C24_AdvanceOneBranch == [](C24_NextOptions) /\ [][C24_NeitherFails]_vars

\* A page reached through a replacement mapping linked to a PageInfo with
\* neither field, and advancing it failed.
C24_Witness ==
    \E v \in Variants :
        /\ at[v] = "ValueError"
        /\ Len(requests[v]) = 2
        /\ next_page_info(handed[v][1])[1].params # NOT_GIVEN

\* C26: iter_pages yields the page it was started on first and then every
\* fetched page once, in fetch order; it fetches only from a page whose
\* has_next_page is true and returns at the first page whose has_next_page is
\* false, so a chain of n pages gives n yields and n - 1 fetches; the items
\* iterated are the items of the yielded pages in page order.
C26_EagerTraversal ==
    \A v \in Variants :
        yielded[v] # << >> =>
            LET ys == yielded[v]
                n == Len(ys)
                first == Len(handed[v]) - n + 1
                s == PageNumber(_options(ys[1]))
                r0 == ys[1].request
                fetches == Len(requests[v]) - r0
                chain == ChainEnd(s) - s + 1
            IN  /\ \A k \in 1 .. n :
                       /\ ys[k] = handed[v][first + k - 1]
                       /\ ys[k].request = r0 + k - 1
                       /\ _get_page_items(ys[k]) = _get_page_items(ServerPage(s + k - 1))
                /\ \A k \in 1 .. n - 1 : has_next_page(ys[k])
                /\ n <= chain
                /\ at[v] \in {"Yielded", "Done"} => fetches = n - 1
                /\ at[v] = "Done" =>
                       /\ ~has_next_page(ys[n])
                       /\ n = chain
                       /\ fetches = chain - 1
                /\ iterated[v] = Flatten(ys)

\* A chain of three pages of two items each was walked to its end.
C26_Witness ==
    \E v \in Variants :
        /\ at[v] = "Done"
        /\ Len(yielded[v]) = 3
        /\ Len(requests[v]) = 3
        /\ Len(iterated[v]) = 6

\* C27: get_api_list on the cooperative client returns a paginator and makes
\* no request; each await of the paginator makes exactly one logical request
\* with the paginator's options and returns one page; requests are otherwise
\* made only when the caller resumes the iteration or calls get_next_page.
C27_NothingBeforeAwait ==
    \A v \in Variants :
        call.on[v] = "async" =>
            /\ at[v] = "Paginator" =>
                   requests[v] = << >> /\ handed[v] = << >> /\ sent[v] = << >>
            /\ requests[v] # << >> => paginator[v] # << >>

C27_OneRequestPerAwait ==
    \A v \in Variants :
        call.on[v] = "async" =>
            /\ get_api_list(v) =>
                   requests'[v] = requests[v] /\ handed'[v] = handed[v] /\ sent'[v] = sent[v]
            /\ __await__(v) =>
                   /\ Len(requests'[v]) = Len(requests[v]) + 1
                   /\ Last(requests'[v]).options = paginator[v][1].options
                   /\ at'[v] = "Requesting"
                   /\ handed'[v] = handed[v]
            /\ Return(v) =>
                   /\ Len(requests'[v]) = Len(requests[v])
                   /\ pc[v] = "Succeeded" => Len(handed'[v]) = Len(handed[v]) + 1
                   /\ pc[v] # "Succeeded" => handed'[v] = handed[v] /\ at'[v] = result[v].type
            /\ Len(sent'[v]) > Len(sent[v]) => at[v] = "Requesting"
            /\ Len(requests'[v]) <= Len(requests[v]) + 1
            /\ Len(requests'[v]) > Len(requests[v]) =>
                   __await__(v) \/ Call_get_next_page(v) \/ Resume(v)

C27_LazyPaginator == [](C27_NothingBeforeAwait) /\ [][C27_OneRequestPerAwait]_vars

\* The paginator was awaited twice and returned a page each time.
C27_Witness ==
    /\ at["async"] = "Page"
    /\ Resolutions("async") = 2
    /\ Len(requests["async"]) = 2
    /\ Len(handed["async"]) = 2

\* C28: every page returned or yielded to a caller was bound exactly once, to
\* the client and model of the call and to the options of the request that
\* produced it.
C28_PagesBound ==
    \A v \in Variants :
        \A p \in {handed[v][k] : k \in 1 .. Len(handed[v])}
                    \cup {yielded[v][k] : k \in 1 .. Len(yielded[v])} :
            /\ p.binds = 1
            /\ p.bound = <<[client |-> v, model |-> call.cast_to,
                            options |-> requests[v][p.request].options]>>

\* The cooperative caller awaited the paginator, started iterating and was
\* yielded a fetched page.
C28_Witness ==
    /\ at["async"] = "Yielded"
    /\ Len(yielded["async"]) = 2
    /\ Last(yielded["async"]).request = 2
    /\ Last(yielded["async"]).binds = 1

\* C31: when a logical request made with stream=True has ended, every
\* response its executor received was either returned to the caller in a
\* stream wrapper or read to its end.
C31_NoStreamLeftOpen ==
    \A v \in Variants :
        call.stream /\ Done(v) =>
            \A k \in 1 .. Len(received[v]) :
                received[v][k].is_read \/ received[v][k].wrapped

\* The idempotency key the logical request r sent, if it sent one.
KeysSent(r) ==
    {r.sent[i].headers[IdempotencyHeaderName] :
        i \in {j \in 1 .. Len(r.sent) : IdempotencyHeaderName \in DOMAIN r.sent[j].headers}}

\* C32: no two logical requests that have returned sent the same generated
\* idempotency key: the request for a next page, and a second await of a
\* paginator, send a key of their own.
C32_KeysNotShared ==
    \A v \in Variants :
        \A j, k \in 1 .. Len(requests[v]) :
            j < k => KeysSent(requests[v][j]) \cap KeysSent(requests[v][k]) = {}

\* C33: every request get_next_page made was advanced from a page whose
\* has_next_page() is true.
C33_NextPageOnlyAfterHasNext ==
    \A v \in Variants :
        \A k \in 1 .. Len(requests[v]) :
            requests[v][k].from > 0 => has_next_page(AdvancedFrom(v, requests[v][k]))

\* C34: every page fetch starts with the whole retry budget of its options,
\* whatever earlier fetches consumed: at its i-th attempt BudgetAt(v, i)
\* retries remain, and it fails only after Budget(v) + 1 attempts.  A fetch
\* that fails gives its error to the caller and changes nothing the caller
\* was given: the pages yielded are consecutive pages of the endpoint.
C34_BudgetPerFetch ==
    \A v \in Variants :
        /\ Dispatches(v) >= 1 => retries[v] = BudgetAt(v, Dispatches(v))
        /\ \A k \in 1 .. Len(requests[v]) : Len(requests[v][k].sent) <= Budget(v) + 1
        /\ at[v] = "APIConnectionError" =>
               /\ Len(Last(requests[v]).sent) = Budget(v) + 1
               /\ Len(handed[v]) = Len(requests[v]) - 1
        /\ \A k \in 1 .. Len(yielded[v]) :
               PageNumber(_options(yielded[v][k])) = PageNumber(_options(yielded[v][1])) + k - 1

C34_FailureSurfaces ==
    \A v \in Variants :
        Return(v) /\ pc[v] = "Failed" =>
            /\ at'[v] = result[v].type
            /\ handed'[v] = handed[v]
            /\ yielded'[v] = yielded[v]
            /\ iterated'[v] = iterated[v]

C34_BudgetPerLogicalRequest == [](C34_BudgetPerFetch) /\ [][C34_FailureSurfaces]_vars

\* The fetch of the first page used up retries and the fetch of the second
\* page, made by the iteration, is at its first attempt with the whole budget.
C34_Witness ==
    \E v \in Variants :
        /\ at[v] = "Requesting"
        /\ Len(yielded[v]) = 1
        /\ Len(requests[v]) = 2
        /\ Len(requests[v][1].sent) = Budget(v) + 1
        /\ Dispatches(v) = 1
        /\ retries[v] = Budget(v)
        /\ Budget(v) >= 1

\* C35: advancing from a page leaves it as it was: every page the caller was
\* given keeps its bound options and its items at every step, and two
\* requests advanced from the same page are made with the same options.
C35_PagesKept ==
    \A v \in Variants :
        /\ \A k \in 1 .. Len(handed[v]) : handed'[v][k] = handed[v][k]
        /\ at[v] = "Yielded" =>
               \A k \in 1 .. Len(yielded[v]) : yielded'[v][k] = yielded[v][k]

C35_SameRequestAgain ==
    \A v \in Variants :
        \A j, k \in 1 .. Len(requests[v]) :
            requests[v][j].from > 0 /\ requests[v][j].from = requests[v][k].from =>
                requests[v][j].options = requests[v][k].options

C35_AdvanceKeepsPage == [][C35_PagesKept]_vars /\ [](C35_SameRequestAgain)

\* The caller advanced twice from its first page and was given a page each time.
C35_Witness ==
    \E v \in Variants :
        /\ at[v] = "Page"
        /\ Reissued(v)
        /\ Len(handed[v]) = 3
        /\ handed[v][1].bound[1].options.params = [k \in {"limit"} |-> "10"]
        /\ handed[v][3].bound[1].options.params # handed[v][1].bound[1].options.params

====
